---- MODULE Spec2Model ----
(***************************************************************************)
(* State-machine model of the 21-school notifier bot (src/bot):            *)
(*   ConfigManager          config_manager.py                              *)
(*   SchoolPlatformManager  platform_manager.py                            *)
(*   TelegramSchoolNotifier telegram_bot.py                                *)
(* The bot runs on one asyncio event loop: a handler or a scheduler job    *)
(* runs without interleaving up to its next await that suspends.  Each     *)
(* action below is one such synchronous stretch.  The answers of the       *)
(* identity provider, the browser, the platform and Telegram are inputs    *)
(* of the action, drawn from small sets.                                   *)
(***************************************************************************)
EXTENDS Integers, Sequences, FiniteSets, TLC

VARIABLES
    config,                 \* ConfigManager.config (the dict, password included)
    config_file,            \* content of bot_config.json, <<>> while absent
    token,                  \* SchoolPlatformManager.token
    token_expiry,           \* SchoolPlatformManager.token_expiry
    last_notification_ids,  \* SchoolPlatformManager.last_notification_ids
    is_running,             \* TelegramSchoolNotifier.is_running
    scheduler,              \* the AsyncIOScheduler: started or not, its jobs
    stats,                  \* TelegramSchoolNotifier.stats
    now,                    \* datetime.now(), in hours
    check_pc,               \* where the check_notifications coroutine stands
    to_send,                \* new notifications it still has to send
    obs,                    \* what the last synchronous stretch did
    run,                    \* what the current check_notifications run did
    hist,                   \* the successful fetches of get_new_notifications
    user_data               \* context.user_data of each chat

vars == <<config, config_file, token, token_expiry, last_notification_ids,
          is_running, scheduler, stats, now, check_pc, to_send, obs, run, hist,
          user_data>>

-----------------------------------------------------------------------------
(* Bounds of the model *)

MaxTime == 33
MaxChecks == 2
MaxFetchLen == 4
MaxFetches == 3

(* Program constants *)

ApiTokenHours == 10
SeleniumTokenHours == 23

-----------------------------------------------------------------------------
(* Python values *)

None == "None"
Nothing == <<>>
Some(x) == <<x>>

\* Python truthiness of an Optional[str]
Truthy(s) == s # None /\ s # ""

\* x or y, on Optional[str]
Or(x, y) == IF Truthy(x) THEN x ELSE y

Range(s) == {s[i] : i \in DOMAIN s}

\* how many times x occurs in the sequence s
Count(s, x) == Cardinality({i \in DOMAIN s : s[i] = x})

\* the position of the first x in s, 0 when there is none
FirstIndex(s, x) ==
    IF x \in Range(s) THEN CHOOSE i \in DOMAIN s :
                                /\ s[i] = x
                                /\ \A j \in DOMAIN s : s[j] = x => i <= j
    ELSE 0

\* an Optional[List]: None, or the list l
NoList == [ok |-> FALSE, list |-> <<>>]
List(l) == [ok |-> TRUE, list |-> l]

-----------------------------------------------------------------------------
(* The environment's values *)

Logins == {"", "student"}
Passwords == {"", "secret"}
SchoolIds == {"", "school-1"}
Chats == {"100", "200"}
Tokens == {"t1", "t2"}
Ids == {"A", "B", "C", "D"}
ValidZones == {"Europe/Moscow", "Asia/Omsk"}

Notification(i) == [id |-> i]

\* the lists of notifications with pairwise distinct ids, at most n long
ListsUpTo(n) ==
    UNION {{l \in [1..k -> {Notification(i) : i \in Ids}] :
                \A a, b \in 1..k : a # b => l[a] # l[b]} : k \in 0..n}

\* what the token endpoint answers to the POST of login_via_api
ApiAnswers ==
    {[kind |-> "response", status |-> 200, access_token |-> t] : t \in Tokens}
    \cup {[kind |-> "response", status |-> 200, access_token |-> ""],
          [kind |-> "response", status |-> 401, access_token |-> ""],
          [kind |-> "response", status |-> 400, access_token |-> ""],
          [kind |-> "response", status |-> 503, access_token |-> ""],
          [kind |-> "transport_error", status |-> 0, access_token |-> ""],
          [kind |-> "bad_json", status |-> 200, access_token |-> ""]}

\* the token sources of wait_for_token, in the order it lists them
token_sources ==
    <<"_extract_token_from_local_storage",
      "_extract_token_from_session_storage",
      "_extract_token_from_cookies",
      "_extract_token_from_url",
      "_extract_token_from_page_content">>

\* what the page holds in each source, in that order
NoTokens == <<"", "", "", "", "">>
InLocalStorage(t) == <<t, "", "", "", "">>

\* what the browser does during login_via_selenium.
\* setup: "standard" when the first attempt of setup_driver returns a
\*   driver, "fallback" when it raises before a session exists and the
\*   manual attempt returns one, "script_failed" when it creates a session
\*   whose execute_script raises and the manual attempt returns one,
\*   "failed" when both attempts raise before a session exists.
\* kind: "signal" when the wait of wait_for_token sees a success signal,
\*   "timeout" when a wait times out, "error" for another exception.
Browser(setup, kind, found) == [setup |-> setup, kind |-> kind, found |-> found]

DriverSetups == {"standard", "fallback", "script_failed", "failed"}

\* how the browser login ends once the standard setup has worked
BrowserAnswers ==
    {Browser("standard", "signal", InLocalStorage(t)) : t \in Tokens}
    \cup {Browser("standard", "signal", NoTokens),
          Browser("standard", "timeout", NoTokens),
          Browser("standard", "error", NoTokens)}

NoBrowser == Browser("standard", "error", NoTokens)

\* the same with every way the setup may go, and pages that hold tokens in
\* more than one source
BrowserSessions ==
    {Browser(setup, b.kind, b.found) : setup \in DriverSetups, b \in BrowserAnswers}
    \cup {Browser("standard", "signal", found) :
             found \in {<<"", "t2", "", "", "">>, <<"t1", "", "t2", "", "">>,
                        <<"", "", "", "t1", "">>, <<"", "", "", "", "t2">>}}

\* the status of the GET of validate_token, 0 for a transport error
ProbeAnswers == {200, 401, 0}

\* what the campus list endpoint answers to get_campuses
CampusAnswers ==
    {[kind |-> "response", status |-> 200,
      campuses |-> <<[id |-> "school-1", fullName |-> "Campus One",
                      shortName |-> "one"]>>],
     [kind |-> "response", status |-> 200, campuses |-> <<>>],
     [kind |-> "response", status |-> 401, campuses |-> <<>>]}

\* what the GraphQL endpoint answers to the notification query
\* the JSON body of an answer: the chain of keys data, s21Notification,
\* getS21Notifications, notifications is whole (key = 0), or its key-th key
\* is missing or holds null
NestedKeys ==
    <<"data", "s21Notification", "getS21Notifications", "notifications">>
Body(key, how) == [key |-> key, how |-> how]
WellFormed == Body(0, "present")
Bodies ==
    {WellFormed}
    \cup {Body(key, how) : key \in DOMAIN NestedKeys, how \in {"missing", "null"}}

Answer(kind, status, errors, body, notifications) ==
    [kind |-> kind, status |-> status, errors |-> errors, body |-> body,
     notifications |-> notifications]

QueryAnswers(lists) ==
    {Answer("response", 200, FALSE, WellFormed, l) : l \in lists}
    \cup {Answer("response", 200, TRUE, WellFormed, <<>>),
          Answer("response", 401, FALSE, WellFormed, <<>>),
          Answer("transport_error", 0, FALSE, WellFormed, <<>>)}

\* the answers with status 200 of every shape: with an errors entry beside
\* the data, with a broken chain of keys (and so without a list), or not
\* JSON at all
ShapedAnswers(lists) ==
    {Answer("response", 200, errors, WellFormed, l) :
        errors \in BOOLEAN, l \in lists}
    \cup {Answer("response", 200, FALSE, body, <<>>) :
             body \in Bodies \ {WellFormed}}
    \cup {Answer("bad_json", 200, FALSE, WellFormed, <<>>)}

NoQuery ==
    Answer("transport_error", 0, FALSE, WellFormed, <<>>)

\* the answers of the outside world during one synchronous stretch
Servers(apis, browsers, probes, campuses, queries) ==
    [api : apis, browser : browsers, probe : probes, campuses : campuses,
     query : queries]

-----------------------------------------------------------------------------
(* ConfigManager *)

get_default_config ==
    [platform_login |-> "", school_id |-> "", campus_name |-> "",
     admin_chat_id |-> "", is_configured |-> FALSE, last_update |-> Nothing,
     timezone |-> "UTC+3"]

\* __init__: the loaded dict plus the password of the environment
WithPassword(loaded, password) ==
    [k \in DOMAIN loaded \cup {"platform_password"} |->
        IF k = "platform_password" THEN password ELSE loaded[k]]

\* datetime.now().isoformat() at time t
isoformat(t) == <<"iso", t>>

\* faulty variant: every key is written, the password included
save_config_all(cfg, t) ==
    LET stamped == [cfg EXCEPT !.last_update = isoformat(t)]
    IN  [config |-> stamped, config_file |-> Some(stamped)]

\* save_config: stamps last_update and writes every key but the password
save_config(cfg, t) ==
    LET stamped == [cfg EXCEPT !.last_update = isoformat(t)]
        config_to_save ==
            [k \in DOMAIN stamped \ {"platform_password"} |-> stamped[k]]
    IN  [config |-> stamped, config_file |-> Some(config_to_save)]

\* zone names that zoneinfo refuses as keys (empty, absolute, not normalized)
MalformedZones == {"", "/etc/localtime"}

\* ZoneInfo(value): the zone, or the exception it raises
ZoneInfo(value) ==
    IF value \in ValidZones THEN "zone"
    ELSE IF value \in MalformedZones THEN "ValueError"
    ELSE "ZoneInfoNotFoundError"

\* faulty variant: the password counts for is_configured
update_setting_with_password(cfg, file, key, value, t) ==
    LET set == [cfg EXCEPT ![key] = value]
        flagged ==
            [set EXCEPT !.is_configured =
                /\ Truthy(set.platform_login)
                /\ Truthy(set.platform_password)
                /\ Truthy(set.school_id)
                /\ Truthy(set.admin_chat_id)]
        saved == save_config(flagged, t)
    IN  IF key = "timezone" /\ ZoneInfo(value) # "zone"
        THEN [config |-> cfg, config_file |-> file, raised |-> None]
        ELSE [config |-> saved.config, config_file |-> saved.config_file,
              raised |-> None]

\* update_setting: the dict and the file after the call, and the exception
\* the call raised to its caller (None when it returned)
update_setting(cfg, file, key, value, t) ==
    LET set == [cfg EXCEPT ![key] = value]
        flagged ==
            [set EXCEPT !.is_configured =
                /\ Truthy(set.platform_login)
                /\ Truthy(set.school_id)
                /\ Truthy(set.admin_chat_id)]
        saved == save_config(flagged, t)
    IN  IF key = "timezone" /\ ZoneInfo(value) = "ZoneInfoNotFoundError"
        THEN [config |-> cfg, config_file |-> file, raised |-> None]
        ELSE IF key = "timezone" /\ ZoneInfo(value) = "ValueError"
        THEN [config |-> cfg, config_file |-> file, raised |-> "ValueError"]
        ELSE [config |-> saved.config, config_file |-> saved.config_file,
              raised |-> None]

\* get_config_status: the list of what is missing (complete when empty)
get_config_status(cfg) ==
    LET need == <<"platform_login", "platform_password", "school_id",
                  "admin_chat_id">>
    IN  SelectSeq(need, LAMBDA k : ~Truthy(cfg[k]))

-----------------------------------------------------------------------------
(* SchoolPlatformManager.  A session s is [token, token_expiry]; every      *)
(* operation returns the session after it, its return value and the calls  *)
(* it made, in order.                                                       *)

login_via_api(cfg, login_arg, password_arg, api) ==
    LET login == Or(login_arg, cfg.platform_login)
        password == Or(password_arg, cfg.platform_password)
    IN  IF ~Truthy(login) \/ ~Truthy(password)
        THEN [ret |-> None, calls |-> <<>>]
        ELSE [ret |-> IF /\ api.kind = "response"
                         /\ api.status = 200
                         /\ Truthy(api.access_token)
                      THEN api.access_token
                      ELSE None,
              calls |-> <<"api_login">>]

\* setup_driver: the driver it returns (None when it raises) and the browser
\* sessions it created
setup_driver(browser) ==
    CASE browser.setup = "standard" ->
            [driver |-> "standard", created |-> <<"standard">>]
      [] browser.setup = "fallback" ->
            [driver |-> "manual", created |-> <<"manual">>]
      [] browser.setup = "script_failed" ->
            [driver |-> "manual", created |-> <<"standard", "manual">>]
      [] browser.setup = "failed" ->
            [driver |-> None, created |-> <<>>]

\* the attributes of SchoolPlatformManager that wait_for_token may look up
Methods ==
    {"_extract_token_from_local_storage",
     "_extract_token_from_session_storage", "_extract_token_from_cookies",
     "_extract_token_from_page_content", "extract_token_from_url"}

\* the first non-empty token of the sources, None when there is none
first_token(found) ==
    IF \E i \in DOMAIN found : Truthy(found[i])
    THEN found[CHOOSE i \in DOMAIN found :
                  /\ Truthy(found[i])
                  /\ \A j \in DOMAIN found : Truthy(found[j]) => i <= j]
    ELSE None

\* wait_for_token, after the form was submitted: what it returns and the
\* exception that leaves it.  Building the list token_sources looks every
\* source up as an attribute of self.
wait_for_token(browser) ==
    IF browser.kind = "timeout"
    THEN [ret |-> None, raised |-> None]
    ELSE IF \E i \in DOMAIN token_sources : token_sources[i] \notin Methods
    THEN [ret |-> None, raised |-> "AttributeError"]
    ELSE [ret |-> first_token(browser.found), raised |-> None]

\* login_via_selenium: its return value and what became of the browser
\* sessions
login_via_selenium(login, password, browser) ==
    LET setup == setup_driver(browser)
        waited == wait_for_token(browser)
    IN  [ret |-> IF setup.driver = None \/ browser.kind = "error"
                    \/ waited.raised # None
                 THEN None
                 ELSE waited.ret,
         calls |-> <<"selenium_login">>,
         created |-> setup.created,
         quit |-> IF setup.driver = None THEN <<>> ELSE <<setup.driver>>]

\* faulty variant: the browser tier is entered whatever the API tier returned
login_and_get_token_both_tiers(s, cfg, t, srv) ==
    LET login == Or(None, cfg.platform_login)
        password == Or(None, cfg.platform_password)
        api == login_via_api(cfg, login, password, srv.api)
        selenium == login_via_selenium(login, password, srv.browser)
        got == Or(api.ret, selenium.ret)
    IN  IF ~Truthy(login) \/ ~Truthy(password)
        THEN [s |-> s, ret |-> None,
              calls |-> <<"login_and_get_token", "returned_None">>]
        ELSE [s |-> IF Truthy(got)
                    THEN [token |-> got,
                          token_expiry |-> Some(t + ApiTokenHours)]
                    ELSE s,
              ret |-> got,
              calls |-> <<"login_and_get_token">> \o api.calls
                        \o selenium.calls
                        \o IF Truthy(got) THEN <<"returned_token">>
                           ELSE <<"returned_None">>]

\* faulty variant: a failed login forgets the stored session
login_and_get_token_forgets(s, cfg, t, srv) ==
    LET login == Or(None, cfg.platform_login)
        password == Or(None, cfg.platform_password)
        api == login_via_api(cfg, login, password, srv.api)
        selenium == login_via_selenium(login, password, srv.browser)
        cleared == [token |-> None, token_expiry |-> Nothing]
    IN  IF ~Truthy(login) \/ ~Truthy(password)
        THEN [s |-> cleared, ret |-> None,
              calls |-> <<"login_and_get_token", "returned_None">>]
        ELSE IF Truthy(api.ret)
        THEN [s |-> [token |-> api.ret,
                     token_expiry |-> Some(t + ApiTokenHours)],
              ret |-> api.ret,
              calls |-> <<"login_and_get_token">> \o api.calls
                        \o <<"returned_token">>]
        ELSE IF Truthy(selenium.ret)
        THEN [s |-> [token |-> selenium.ret,
                     token_expiry |-> Some(t + SeleniumTokenHours)],
              ret |-> selenium.ret,
              calls |-> <<"login_and_get_token">> \o api.calls
                        \o selenium.calls \o <<"returned_token">>]
        ELSE [s |-> cleared, ret |-> None,
              calls |-> <<"login_and_get_token">> \o api.calls
                        \o selenium.calls \o <<"returned_None">>]

\* faulty variant: a successful login stores the token and leaves the expiry
\* as it was
login_and_get_token_keeps_expiry(s, cfg, t, srv) ==
    LET login == Or(None, cfg.platform_login)
        password == Or(None, cfg.platform_password)
        api == login_via_api(cfg, login, password, srv.api)
        selenium == login_via_selenium(login, password, srv.browser)
    IN  IF ~Truthy(login) \/ ~Truthy(password)
        THEN [s |-> s, ret |-> None,
              calls |-> <<"login_and_get_token", "returned_None">>]
        ELSE IF Truthy(api.ret)
        THEN [s |-> [token |-> api.ret, token_expiry |-> s.token_expiry],
              ret |-> api.ret,
              calls |-> <<"login_and_get_token">> \o api.calls
                        \o <<"returned_token">>]
        ELSE [s |-> s, ret |-> None,
              calls |-> <<"login_and_get_token">> \o api.calls
                        \o selenium.calls \o <<"returned_None">>]

\* the calls end with what the call returned: a token, or None
login_and_get_token(s, cfg, t, srv) ==
    LET login == Or(None, cfg.platform_login)
        password == Or(None, cfg.platform_password)
        api == login_via_api(cfg, login, password, srv.api)
        selenium == login_via_selenium(login, password, srv.browser)
    IN  IF ~Truthy(login) \/ ~Truthy(password)
        THEN [s |-> s, ret |-> None,
              calls |-> <<"login_and_get_token", "returned_None">>]
        ELSE IF Truthy(api.ret)
        THEN [s |-> [token |-> api.ret,
                     token_expiry |-> Some(t + ApiTokenHours)],
              ret |-> api.ret,
              calls |-> <<"login_and_get_token">> \o api.calls
                        \o <<"returned_token">>]
        ELSE IF Truthy(selenium.ret)
        THEN [s |-> [token |-> selenium.ret,
                     token_expiry |-> Some(t + SeleniumTokenHours)],
              ret |-> selenium.ret,
              calls |-> <<"login_and_get_token">> \o api.calls
                        \o selenium.calls \o <<"returned_token">>]
        ELSE [s |-> s, ret |-> None,
              calls |-> <<"login_and_get_token">> \o api.calls
                        \o selenium.calls \o <<"returned_None">>]

validate_token(tok, probe) ==
    IF ~Truthy(tok)
    THEN [ret |-> FALSE, calls |-> <<>>]
    ELSE [ret |-> probe = 200, calls |-> <<"validate_token">>]

get_campuses(s, cfg, t, srv) ==
    LET valid == validate_token(s.token, srv.probe)
        auth == login_and_get_token(s, cfg, t, srv)
        s1 == IF valid.ret THEN s ELSE [auth.s EXCEPT !.token = auth.ret]
        pre == IF valid.ret THEN valid.calls ELSE valid.calls \o auth.calls
        answer == srv.campuses
    IN  IF ~Truthy(s.token)
        THEN [s |-> s, ret |-> NoList, calls |-> <<>>]
        ELSE IF ~valid.ret /\ ~Truthy(auth.ret)
        THEN [s |-> auth.s, ret |-> NoList, calls |-> pre]
        ELSE [s |-> s1,
              ret |-> IF answer.kind = "response" /\ answer.status = 200
                      THEN List(answer.campuses)
                      ELSE NoList,
              calls |-> Append(pre, "get_campuses_request")]

\* data.get("data", {}).get("s21Notification", {})
\*     .get("getS21Notifications", {}).get("notifications", [])
\* dict.get gives the default for a missing key and None for a null; None
\* has no get
nested_get(body, notifications) ==
    CASE body.how = "present" -> [ret |-> List(notifications), raised |-> None]
      [] body.how = "missing" -> [ret |-> List(<<>>), raised |-> None]
      [] body.how = "null" /\ body.key < Len(NestedKeys) ->
            [ret |-> NoList, raised |-> "AttributeError"]
      [] body.how = "null" /\ body.key = Len(NestedKeys) ->
            [ret |-> NoList, raised |-> None]

\* a parse that reads the data before it looks for an errors entry
parse_notifications_ignores_errors(answer) ==
    IF answer.kind = "response" /\ answer.status = 200
    THEN nested_get(answer.body, answer.notifications)
    ELSE [ret |-> NoList, raised |-> None]

\* the answer of the notification query as the try block reads it: the list
\* or None, and the exception that leaves the method
parse_notifications(answer) ==
    IF answer.kind = "response" /\ answer.status = 200 /\ ~answer.errors
    THEN nested_get(answer.body, answer.notifications)
    ELSE [ret |-> NoList, raised |-> None]

\* the parsed answer of the notification query: the list, or None
notifications_of(answer) == parse_notifications(answer).ret

get_notifications(s, cfg, srv) ==
    IF ~Truthy(s.token)
    THEN [ret |-> NoList, calls |-> <<>>, raised |-> None]
    ELSE IF ~Truthy(cfg.school_id)
    THEN [ret |-> NoList, calls |-> <<>>, raised |-> None]
    ELSE [ret |-> notifications_of(srv.query),
          calls |-> <<"notifications_request">>,
          raised |-> parse_notifications(srv.query).raised]

ids_of(notifications) == {notifications[i].id : i \in DOMAIN notifications}

\* faulty variant: past the baseline, every fetched notification is reported
get_new_notifications_unfiltered(s, seen, cfg, srv) ==
    LET fetch == get_notifications(s, cfg, srv)
        current_notifications == fetch.ret
        current_ids == ids_of(current_notifications.list)
    IN  IF ~current_notifications.ok \/ current_notifications.list = <<>>
        THEN [last_notification_ids |-> seen, ret |-> <<>>,
              fetched |-> current_notifications, calls |-> fetch.calls,
              raised |-> fetch.raised]
        ELSE IF seen = {}
        THEN [last_notification_ids |-> current_ids, ret |-> <<>>,
              fetched |-> current_notifications, calls |-> fetch.calls,
              raised |-> fetch.raised]
        ELSE [last_notification_ids |-> current_ids,
              ret |-> current_notifications.list,
              fetched |-> current_notifications, calls |-> fetch.calls,
              raised |-> fetch.raised]

\* faulty variant: the fetched ids are merged into the seen-set
get_new_notifications_merging(s, seen, cfg, srv) ==
    LET fetch == get_notifications(s, cfg, srv)
        current_notifications == fetch.ret
        current_ids == ids_of(current_notifications.list)
        new_ids == current_ids \ seen
    IN  IF ~current_notifications.ok \/ current_notifications.list = <<>>
        THEN [last_notification_ids |-> seen, ret |-> <<>>,
              fetched |-> current_notifications, calls |-> fetch.calls,
              raised |-> fetch.raised]
        ELSE IF seen = {}
        THEN [last_notification_ids |-> current_ids, ret |-> <<>>,
              fetched |-> current_notifications, calls |-> fetch.calls,
              raised |-> fetch.raised]
        ELSE [last_notification_ids |-> seen \cup current_ids,
              ret |-> SelectSeq(current_notifications.list,
                                LAMBDA n : n.id \in new_ids),
              fetched |-> current_notifications, calls |-> fetch.calls,
              raised |-> fetch.raised]

\* returns the seen-set after the call, the new notifications, the fetched
\* list (what get_notifications returned) and the calls
get_new_notifications(s, seen, cfg, srv) ==
    LET fetch == get_notifications(s, cfg, srv)
        current_notifications == fetch.ret
        current_ids == ids_of(current_notifications.list)
        new_ids == current_ids \ seen
    IN  IF ~current_notifications.ok \/ current_notifications.list = <<>>
        THEN [last_notification_ids |-> seen, ret |-> <<>>,
              fetched |-> current_notifications, calls |-> fetch.calls,
              raised |-> fetch.raised]
        ELSE IF seen = {}
        THEN [last_notification_ids |-> current_ids, ret |-> <<>>,
              fetched |-> current_notifications, calls |-> fetch.calls,
              raised |-> fetch.raised]
        ELSE [last_notification_ids |-> current_ids,
              ret |-> SelectSeq(current_notifications.list,
                                LAMBDA n : n.id \in new_ids),
              fetched |-> current_notifications, calls |-> fetch.calls,
              raised |-> fetch.raised]

get_last_notification(s, cfg, t, srv) ==
    LET valid == validate_token(s.token, srv.probe)
        auth == login_and_get_token(s, cfg, t, srv)
        s1 == IF valid.ret THEN s ELSE [auth.s EXCEPT !.token = auth.ret]
        pre == IF valid.ret THEN valid.calls ELSE valid.calls \o auth.calls
        notifications == notifications_of(srv.query)
    IN  IF ~Truthy(s.token)
        THEN [s |-> s, ret |-> NoList, calls |-> <<>>, raised |-> None]
        ELSE IF ~valid.ret /\ ~Truthy(auth.ret)
        THEN [s |-> auth.s, ret |-> NoList, calls |-> pre, raised |-> None]
        ELSE IF ~Truthy(cfg.school_id)
        THEN [s |-> s1, ret |-> NoList, calls |-> pre, raised |-> None]
        ELSE [s |-> s1,
              ret |-> IF notifications.ok /\ notifications.list # <<>>
                      THEN List(<<notifications.list[1]>>)
                      ELSE NoList,
              calls |-> Append(pre, "last_notification_request"),
              raised |-> parse_notifications(srv.query).raised]

-----------------------------------------------------------------------------
(* TelegramSchoolNotifier *)

Session == [token |-> token, token_expiry |-> token_expiry]

NoServer ==
    [api |-> [kind |-> "none", status |-> 0, access_token |-> ""],
     probe |-> 0]

\* the operations that fetch from the platform
FetchOps == {"check_notifications", "get_last_notification", "test_auth"}

\* the record of the last synchronous stretch: the operation, the calls it
\* made in order, what it returned, the list its notification query fetched,
\* the answer of the identity provider to its first login, and for a fetch
\* operation the status the validation endpoint had for the stored token
Observe(op, calls, ret, fetched, srv) ==
    [op |-> op, args |-> <<>>, shown |-> <<>>, calls |-> calls, ret |-> ret,
     fetched |-> fetched, drivers |-> [created |-> <<>>, quit |-> <<>>],
     query |-> NoQuery, raised |-> None,
     browser |-> IF "selenium_login" \in Range(calls) THEN srv.browser
                 ELSE NoBrowser,
     api |-> IF "api_login" \in Range(calls) THEN srv.api ELSE NoServer.api,
     probe |-> IF op \in FetchOps THEN srv.probe ELSE NoServer.probe]

\* the record of a call of a fetch operation, with the answer to the query
\* it sent and the exception that left it
Asked(o, query, raised) ==
    [o EXCEPT !.query = IF "notifications_request" \in Range(o.calls)
                        THEN query ELSE NoQuery,
              !.raised = raised]

\* the record of a handler's stretch, with the chat the update came from
From(chat, o) == [o EXCEPT !.args = <<chat>>]

\* the record of a stretch that printed the state of the bot in its reply
Showing(o, text) == [o EXCEPT !.shown = text]

IsAdmin(chat) == chat = config.admin_chat_id

daily_auth(s, cfg, t, srv) ==
    LET auth == login_and_get_token(s, cfg, t, srv)
    IN  [s |-> auth.s, ret |-> Truthy(auth.ret), calls |-> auth.calls]

\* faulty variant: the expiry is not looked at
token_is_stale_no_expiry(s, t) == ~Truthy(s.token)

\* the token check at the head of check_notifications
token_is_stale(s, t) ==
    \/ ~Truthy(s.token)
    \/ s.token_expiry = Nothing
    \/ s.token_expiry[1] < t

\* context.user_data of a chat that has not been prompted for anything
NoUserData ==
    [awaiting_login |-> FALSE, awaiting_password_input |-> FALSE,
     awaiting_campus_selection |-> FALSE,
     awaiting_timezone_selection |-> FALSE, campuses |-> <<>>]

NoRun == [stale |-> FALSE, log |-> <<>>, found |-> 0]

Init ==
    /\ \E login \in Logins, password \in Passwords, school \in SchoolIds,
          admin \in {"", "100"}, exists \in BOOLEAN :
          LET loaded ==
                  [platform_login |-> login, school_id |-> school,
                   campus_name |-> IF school = "" THEN "" ELSE "Campus One",
                   admin_chat_id |-> admin,
                   is_configured |->
                       Truthy(login) /\ Truthy(school) /\ Truthy(admin),
                   last_update |-> isoformat(0), timezone |-> "UTC+3"]
          IN  IF exists
              THEN /\ config = WithPassword(loaded, password)
                   /\ config_file = Some(loaded)
              ELSE /\ login = "" /\ school = "" /\ admin = ""
                   /\ config = WithPassword(get_default_config, password)
                   /\ config_file = Nothing
    /\ token = None
    /\ token_expiry = Nothing
    /\ last_notification_ids = {}
    /\ is_running = FALSE
    /\ scheduler = [running |-> FALSE, jobs |-> {}]
    /\ stats = [total_checks |-> 0, notifications_sent |-> 0, errors |-> 0]
    /\ now = 0
    /\ check_pc = "idle"
    /\ to_send = <<>>
    /\ obs = Observe("init", <<>>, None, NoList, NoServer)
    /\ run = NoRun
    /\ hist = [fetches |-> 0, older |-> NoList, prev |-> NoList,
               last |-> NoList]
    /\ user_data = [chat \in Chats |-> NoUserData]

\* /start
StartCommand(chat) ==
    LET saved == update_setting(config, config_file, "admin_chat_id", chat, now)
    IN  /\ config' = IF ~Truthy(config.admin_chat_id) THEN saved.config ELSE config
        /\ config_file' = IF ~Truthy(config.admin_chat_id)
                          THEN saved.config_file ELSE config_file
        /\ obs' = From(chat, Observe("start_command", <<>>, None, NoList,
                                     NoServer))
        /\ UNCHANGED <<token, token_expiry, last_notification_ids, is_running,
                       scheduler, stats, now, check_pc, to_send, run, hist,
                       user_data>>

\* the values a caller passes to update_setting
SettingKeys ==
    {"platform_login", "platform_password", "school_id", "campus_name",
     "admin_chat_id", "is_configured", "last_update", "timezone"}
ZoneNames == ValidZones \cup MalformedZones \cup {"Invalid/TZ", "UTC+3"}
SettingValues(key) ==
    CASE key = "platform_login" -> Logins
      [] key = "platform_password" -> Passwords
      [] key = "school_id" -> SchoolIds
      [] key = "campus_name" -> {"", "Campus One"}
      [] key = "admin_chat_id" -> Chats \cup {""}
      [] key = "timezone" -> ZoneNames
      [] OTHER -> {"", "yes"}

\* ConfigManager.update_setting(key, value), called as the handlers and the
\* tests call it
UpdateSetting(key, value) ==
    LET saved == update_setting(config, config_file, key, value, now)
    IN  /\ config' = saved.config
        /\ config_file' = saved.config_file
        /\ obs' = [Observe("update_setting", <<>>, saved.raised, NoList,
                           NoServer) EXCEPT !.args = <<key, value>>]
        /\ UNCHANGED <<token, token_expiry, last_notification_ids, is_running,
                       scheduler, stats, now, check_pc, to_send, run, hist,
                       user_data>>

\* a reset that forgets the administrator as well
reset_config_forgets_admin(cfg, t) ==
    save_config(
        [platform_login |-> "", platform_password |-> "", school_id |-> "",
         campus_name |-> "", admin_chat_id |-> "",
         is_configured |-> FALSE, last_update |-> <<"datetime", t>>,
         timezone |-> "Europe/Moscow"], t)

reset_config(cfg, t) ==
    save_config(
        [platform_login |-> "", platform_password |-> "", school_id |-> "",
         campus_name |-> "", admin_chat_id |-> cfg.admin_chat_id,
         is_configured |-> FALSE, last_update |-> <<"datetime", t>>,
         timezone |-> "Europe/Moscow"], t)

ResetSettings(chat) ==
    LET saved == reset_config(config, now)
    IN  /\ config' = IF IsAdmin(chat) THEN saved.config ELSE config
        /\ config_file' = IF IsAdmin(chat) THEN saved.config_file ELSE config_file
        /\ obs' = From(chat, Observe("reset_settings", <<>>, None, NoList,
                                     NoServer))
        /\ UNCHANGED <<token, token_expiry, last_notification_ids, is_running,
                       scheduler, stats, now, check_pc, to_send, run, hist,
                       user_data>>

\* SchoolPlatformManager.login_via_selenium(login, password), called with the
\* stored credentials
LoginViaSelenium(browser) ==
    LET done == login_via_selenium(config.platform_login,
                                   config.platform_password, browser)
    IN  /\ obs' = [Observe("login_via_selenium", done.calls, done.ret, NoList,
                           [api |-> NoServer.api, probe |-> NoServer.probe,
                            browser |-> browser])
                      EXCEPT !.drivers = [created |-> done.created,
                                          quit |-> done.quit]]
        /\ UNCHANGED <<config, config_file, token, token_expiry,
                       last_notification_ids, is_running, scheduler, stats,
                       now, check_pc, to_send, run, hist, user_data>>

\* SchoolPlatformManager.get_notifications(), called on the stored session
GetNotifications(srv) ==
    LET done == get_notifications(Session, config, srv)
    IN  /\ obs' = Asked(Observe("get_notifications", done.calls, done.ret,
                                NoList, srv), srv.query, done.raised)
        /\ UNCHANGED <<config, config_file, token, token_expiry,
                       last_notification_ids, is_running, scheduler, stats,
                       now, check_pc, to_send, run, hist, user_data>>

\* SchoolPlatformManager.get_new_notifications(), called on the stored
\* session and seen-set
GetNewNotifications(srv) ==
    LET done == get_new_notifications(Session, last_notification_ids, config,
                                      srv)
    IN  /\ hist.fetches < MaxFetches
        /\ last_notification_ids' = done.last_notification_ids
        /\ hist' = IF done.fetched.ok
                   THEN [fetches |-> hist.fetches + 1, older |-> hist.prev,
                         prev |-> hist.last,
                         last |-> done.fetched]
                   ELSE hist
        /\ obs' = Asked(Observe("get_new_notifications", done.calls, done.ret,
                                done.fetched, srv), srv.query, done.raised)
        /\ UNCHANGED <<config, config_file, token, token_expiry, is_running,
                       scheduler, stats, now, check_pc, to_send, run,
                       user_data>>

\* SchoolPlatformManager.get_last_notification(), called on the stored
\* session
GetLastNotification(srv) ==
    LET done == get_last_notification(Session, config, now, srv)
    IN  /\ token' = done.s.token
        /\ token_expiry' = done.s.token_expiry
        /\ obs' = Observe("get_last_notification()", done.calls, done.ret,
                          NoList, srv)
        /\ UNCHANGED <<config, config_file, last_notification_ids, is_running,
                       scheduler, stats, now, check_pc, to_send, run, hist,
                       user_data>>

\* test_auth: the session after it, the token it reports, its calls and the
\* reply it ends with
test_auth(s, cfg, t, srv, srv2) ==
    LET auth == login_and_get_token(s, cfg, t, srv)
        campuses == get_campuses(auth.s, cfg, t, srv2)
    IN  IF Truthy(auth.ret)
        THEN [s |-> campuses.s, ret |-> auth.ret,
              calls |-> auth.calls \o campuses.calls,
              reply |-> "Avtorizatsiya uspeshna"]
        ELSE [s |-> auth.s, ret |-> None, calls |-> auth.calls,
              reply |-> "Oshibka avtorizatsii"]

\* srv answers the login, srv2 the get_campuses that follows it
TestAuth(chat, srv, srv2) ==
    LET done == test_auth(Session, config, now, srv, srv2)
    IN  /\ token' = IF IsAdmin(chat) THEN done.s.token ELSE token
        /\ token_expiry' = IF IsAdmin(chat) THEN done.s.token_expiry
                           ELSE token_expiry
        /\ obs' = From(chat,
                  IF IsAdmin(chat)
                  THEN Showing(Observe("test_auth", done.calls, done.ret,
                                       NoList,
                                       [srv EXCEPT !.probe = srv2.probe]),
                               <<done.reply>>)
                  ELSE Observe("denied", <<>>, None, NoList, NoServer))
        /\ UNCHANGED <<config, config_file, last_notification_ids, is_running,
                       scheduler, stats, now, check_pc, to_send, run, hist,
                       user_data>>

\* show_last_notification, reached from last_notification_command
show_last_notification(s, cfg, t, srv) ==
    IF ~Truthy(cfg.school_id)
    THEN [s |-> s, ret |-> NoList, calls |-> <<>>, raised |-> None]
    ELSE get_last_notification(s, cfg, t, srv)

LastNotificationCommand(chat, srv) ==
    LET done == show_last_notification(Session, config, now, srv)
    IN  /\ token' = IF IsAdmin(chat) THEN done.s.token ELSE token
        /\ token_expiry' = IF IsAdmin(chat) THEN done.s.token_expiry
                           ELSE token_expiry
        /\ obs' = From(chat,
                  IF IsAdmin(chat)
                  THEN Observe("get_last_notification", done.calls, done.ret,
                               NoList, srv)
                  ELSE Observe("denied", <<>>, None, NoList, NoServer))
        /\ UNCHANGED <<config, config_file, last_notification_ids, is_running,
                       scheduler, stats, now, check_pc, to_send, run, hist,
                       user_data>>

\* start_monitoring past the admin check.  reply_ok: whether the reply that
\* reports a failed authentication reaches Telegram (reply_text raises
\* otherwise, before is_running is put back)
start_monitoring(s, cfg, running, sched, t, srv, reply_ok) ==
    LET missing == get_config_status(cfg)
        auth == daily_auth(s, cfg, t, srv)
    IN  IF missing # <<>>
        THEN [s |-> s, is_running |-> running, scheduler |-> sched,
              ret |-> "incomplete", calls |-> <<>>]
        ELSE IF running
        THEN [s |-> s, is_running |-> running, scheduler |-> sched,
              ret |-> "already_running", calls |-> <<>>]
        ELSE IF ~auth.ret
        THEN [s |-> auth.s, is_running |-> ~reply_ok, scheduler |-> sched,
              ret |-> IF reply_ok THEN "auth_failed" ELSE "reply_raised",
              calls |-> auth.calls]
        ELSE [s |-> auth.s, is_running |-> TRUE,
              scheduler |-> [running |-> TRUE,
                             jobs |-> sched.jobs \cup
                                      {"daily_auth", "check_notifications"}],
              ret |-> "started", calls |-> auth.calls]

StartMonitoring(chat, srv, reply_ok) ==
    LET done == start_monitoring(Session, config, is_running, scheduler, now,
                                 srv, reply_ok)
    IN  /\ token' = IF IsAdmin(chat) THEN done.s.token ELSE token
        /\ token_expiry' = IF IsAdmin(chat) THEN done.s.token_expiry
                           ELSE token_expiry
        /\ is_running' = IF IsAdmin(chat) THEN done.is_running ELSE is_running
        /\ scheduler' = IF IsAdmin(chat) THEN done.scheduler ELSE scheduler
        /\ obs' = From(chat,
                  IF IsAdmin(chat)
                  THEN Observe("start_monitoring", done.calls, done.ret, NoList,
                               IF done.calls = <<>> THEN NoServer ELSE srv)
                  ELSE Observe("denied", <<>>, None, NoList, NoServer))
        /\ UNCHANGED <<config, config_file, last_notification_ids, stats, now,
                       check_pc, to_send, run, hist, user_data>>

\* stop_monitoring past the admin check: scheduler.shutdown() stops the
\* scheduler and empties its job store
\* faulty variant: a stop on a stopped system flips is_running
stop_monitoring_toggles(running, sched) ==
    [is_running |-> ~running, scheduler |-> [running |-> FALSE, jobs |-> {}],
     ret |-> "stopped"]

\* (shutdown() of a scheduler that was never started raises, after
\* is_running was put to False)
stop_monitoring(running, sched) ==
    IF ~running
    THEN [is_running |-> running, scheduler |-> sched, ret |-> "already_stopped"]
    ELSE [is_running |-> FALSE, scheduler |-> [running |-> FALSE, jobs |-> {}],
          ret |-> IF sched.running THEN "stopped" ELSE "shutdown_raised"]

\* cancels: whether the shutdown cancels a check_notifications run that is
\* suspended at an await (the executor's doing, not this repository's)
StopMonitoring(chat, cancels) ==
    LET done == stop_monitoring(is_running, scheduler)
        stops == IsAdmin(chat) /\ is_running
    IN  /\ is_running' = IF IsAdmin(chat) THEN done.is_running ELSE is_running
        /\ scheduler' = IF IsAdmin(chat) THEN done.scheduler ELSE scheduler
        /\ check_pc' = IF stops /\ cancels THEN "idle" ELSE check_pc
        /\ to_send' = IF stops /\ cancels THEN <<>> ELSE to_send
        /\ obs' = From(chat,
                  IF IsAdmin(chat)
                  THEN Observe("stop_monitoring", <<>>, done.ret, NoList,
                               NoServer)
                  ELSE Observe("denied", <<>>, None, NoList, NoServer))
        /\ UNCHANGED <<config, config_file, token, token_expiry,
                       last_notification_ids, stats, now, run, hist,
                       user_data>>

\* the scheduler fires the daily_auth job
DailyAuthJob(srv) ==
    LET done == daily_auth(Session, config, now, srv)
    IN  /\ scheduler.running
        /\ "daily_auth" \in scheduler.jobs
        /\ token' = done.s.token
        /\ token_expiry' = done.s.token_expiry
        /\ obs' = Observe("daily_auth", done.calls, done.ret, NoList, srv)
        /\ UNCHANGED <<config, config_file, last_notification_ids, is_running,
                       scheduler, stats, now, check_pc, to_send, run, hist,
                       user_data>>

\* check_notifications from get_new_notifications on, up to the first send
check_fetch(s, seen, cfg, h, r, srv) ==
    LET poll == get_new_notifications(s, seen, cfg, srv)
    IN  [s |-> s,
         seen |-> poll.last_notification_ids,
         pc |-> IF poll.ret # <<>> THEN "sending" ELSE "idle",
         to_send |-> poll.ret,
         hist |-> IF poll.fetched.ok
                  THEN [fetches |-> h.fetches + 1, older |-> h.prev,
                        prev |-> h.last, last |-> poll.fetched]
                  ELSE h,
         run |-> [r EXCEPT !.log = Append(@, "get_new_notifications"),
                           !.found = Len(poll.ret)],
         calls |-> poll.calls, ret |-> poll.ret, fetched |-> poll.fetched,
         errors |-> IF poll.raised # None THEN 1 ELSE 0]

\* check_notifications from its start to its first await that suspends: the
\* sleep after the inline re-authentication, or the first send
check_notifications(s, seen, cfg, running, h, t, srv) ==
    LET stale == token_is_stale(s, t)
        auth == daily_auth(s, cfg, t, srv)
        fresh == [stale |-> stale, log |-> <<>>, found |-> 0]
    IN  IF ~running
        THEN [s |-> s, seen |-> seen, pc |-> "idle", to_send |-> <<>>,
              hist |-> h, run |-> NoRun, calls |-> <<>>, ret |-> <<>>,
              fetched |-> NoList, errors |-> 0, counted |-> 0]
        ELSE IF stale
        THEN [s |-> auth.s, seen |-> seen, pc |-> "sleeping", to_send |-> <<>>,
              hist |-> h,
              run |-> [fresh EXCEPT !.log = <<"daily_auth">>],
              calls |-> auth.calls, ret |-> <<>>, fetched |-> NoList,
              errors |-> 0, counted |-> 1]
        ELSE [check_fetch(s, seen, cfg, h, fresh, srv) EXCEPT !.s = s]
                 @@ [counted |-> 1]

\* the scheduler fires the check_notifications job (one instance at a time)
CheckStart(srv) ==
    LET done == check_notifications(Session, last_notification_ids, config,
                                    is_running, hist, now, srv)
    IN  /\ scheduler.running
        /\ "check_notifications" \in scheduler.jobs
        /\ check_pc = "idle"
        /\ stats.total_checks < MaxChecks
        /\ token' = done.s.token
        /\ token_expiry' = done.s.token_expiry
        /\ last_notification_ids' = done.seen
        /\ check_pc' = done.pc
        /\ to_send' = done.to_send
        /\ stats' = [stats EXCEPT !.total_checks = @ + done.counted,
                                  !.errors = @ + done.errors]
        /\ hist' = done.hist
        /\ run' = done.run
        /\ obs' = Observe("check_notifications", done.calls, done.ret,
                          done.fetched, srv)
        /\ UNCHANGED <<config, config_file, is_running, scheduler, now, user_data>>

\* check_notifications resumes after asyncio.sleep(5)
CheckWake(srv) ==
    LET done == check_fetch(Session, last_notification_ids, config, hist, run, srv)
    IN  /\ check_pc = "sleeping"
        /\ last_notification_ids' = done.seen
        /\ check_pc' = done.pc
        /\ to_send' = done.to_send
        /\ hist' = done.hist
        /\ run' = done.run
        /\ stats' = [stats EXCEPT !.errors = @ + done.errors]
        /\ obs' = Observe("check_notifications", done.calls, done.ret,
                          done.fetched, srv)
        /\ UNCHANGED <<config, config_file, token, token_expiry, is_running,
                       scheduler, now, user_data>>

\* send_notification: delivered is whether one of the three send_message
\* attempts (MarkdownV2, HTML, plain) went through
send_notification(cfg, st, delivered) ==
    IF ~Truthy(cfg.admin_chat_id)
    THEN [stats |-> st, calls |-> <<>>]
    ELSE [stats |-> IF delivered THEN st ELSE [st EXCEPT !.errors = @ + 1],
          calls |-> <<"send_message">>]

\* check_notifications sends the next new notification; after the last one it
\* adds the number found to notifications_sent
CheckSend(delivered) ==
    LET sent == send_notification(config, stats, delivered)
        last == Len(to_send) = 1
    IN  /\ check_pc = "sending"
        /\ to_send # <<>>
        /\ to_send' = Tail(to_send)
        /\ check_pc' = IF last THEN "idle" ELSE "sending"
        /\ stats' = IF last
                    THEN [sent.stats EXCEPT !.notifications_sent = @ + run.found]
                    ELSE sent.stats
        /\ obs' = Observe("send_notification", sent.calls, Head(to_send).id,
                          NoList, NoServer)
        /\ UNCHANGED <<config, config_file, token, token_expiry,
                       last_notification_ids, is_running, scheduler, now, run,
                       hist, user_data>>

\* time passes
TickSteps == {ApiTokenHours, SeleniumTokenHours}

Tick(d) ==
    /\ now + d <= MaxTime
    /\ now' = now + d
    /\ obs' = Observe("tick", <<>>, None, NoList, NoServer)
    /\ UNCHANGED <<config, config_file, token, token_expiry,
                   last_notification_ids, is_running, scheduler, stats,
                   check_pc, to_send, run, hist, user_data>>

-----------------------------------------------------------------------------
(* The settings dialogue.  The button labels and the display names of the *)
(* time zones are transliterated.                                          *)

BackLabel == "Nazad k nastroikam"
CancelLabel == "Otmena"

\* str.strip() of the texts a chat sends
strip(text) == IF text = " student " THEN "student" ELSE text

\* the zones of the selection keyboard that the system knows
get_available_timezones == ValidZones

get_timezone_display_name(tz) ==
    CASE tz = "Europe/Moscow" -> "Moskva (UTC+3)"
      [] tz = "Asia/Omsk" -> "Omsk (UTC+6)"
      [] OTHER -> tz

\* name in fullName, on the names the chats send
IsPartOf(name, fullName) ==
    name = fullName \/ (name = "Campus" /\ fullName = "Campus One")

\* the campus at the least of the positions hits, if there is any
FirstCampus(campuses, hits) ==
    IF hits # {}
    THEN Some(campuses[CHOOSE i \in hits : \A j \in hits : i <= j])
    ELSE Nothing

find_campus_by_name(campus_name, campuses) ==
    LET exact == {i \in DOMAIN campuses : campuses[i].fullName = campus_name}
        partial == {i \in DOMAIN campuses :
                       IsPartOf(campus_name, campuses[i].fullName)}
        short == {i \in DOMAIN campuses :
                     campus_name = campuses[i].shortName}
    IN  IF exact # {} THEN FirstCampus(campuses, exact)
        ELSE IF partial # {} THEN FirstCampus(campuses, partial)
        ELSE FirstCampus(campuses, short)

\* the state a text handler leaves: configuration, file, the chat's
\* user_data, and what it replied
Handled(cfg, file, ud, calls) ==
    [config |-> cfg, config_file |-> file, user_data |-> ud, calls |-> calls]

\* _handle_campus_found
handle_campus_found(cfg, file, campus, t) ==
    LET first == update_setting(cfg, file, "school_id", campus.id, t)
    IN  update_setting(first.config, first.config_file, "campus_name",
                       campus.fullName, t)

\* handle_campus_selection, for the administrator
handle_campus_selection(cfg, file, ud, text, t) ==
    LET found == find_campus_by_name(text, ud.campuses)
        saved == handle_campus_found(cfg, file, found[1], t)
        off == [ud EXCEPT !.awaiting_campus_selection = FALSE]
    IN  IF text = BackLabel
        THEN Handled(cfg, file, off, <<"reply_back">>)
        ELSE IF found # Nothing
        THEN Handled(saved.config, saved.config_file, off,
                     <<"reply_campus_chosen">>)
        ELSE Handled(cfg, file, off, <<"reply_campus_not_found">>)

\* handle_timezone_selection, for the administrator
handle_timezone_selection(cfg, file, ud, text, t) ==
    LET chosen == {tz \in get_available_timezones :
                      get_timezone_display_name(tz) = text}
        selected_tz == CHOOSE tz \in chosen : TRUE
        saved == update_setting(cfg, file, "timezone", selected_tz, t)
        off == [ud EXCEPT !.awaiting_timezone_selection = FALSE]
    IN  IF text = BackLabel
        THEN Handled(cfg, file, off, <<"reply_back">>)
        ELSE IF chosen # {}
        THEN Handled(saved.config, saved.config_file, off,
                     <<"reply_timezone_set">>)
        ELSE Handled(cfg, file, off, <<"reply_invalid_timezone">>)

\* handle_text_input, for the administrator
handle_text_input(cfg, file, ud, message, t) ==
    LET text == strip(message)
        login == update_setting(cfg, file, "platform_login", text, t)
        password == update_setting(cfg, file, "platform_password", text, t)
    IN  IF ud.awaiting_campus_selection
        THEN handle_campus_selection(cfg, file, ud, message, t)
        ELSE IF ud.awaiting_login
        THEN Handled(login.config, login.config_file,
                     [ud EXCEPT !.awaiting_login = FALSE],
                     <<"reply_login_saved">>)
        ELSE IF ud.awaiting_password_input
        THEN IF text = CancelLabel
             THEN Handled(cfg, file,
                          [ud EXCEPT !.awaiting_password_input = FALSE],
                          <<"reply_cancelled">>)
             ELSE Handled(password.config, password.config_file,
                          [ud EXCEPT !.awaiting_password_input = FALSE],
                          <<"reply_password_saved", "delete_message">>)
        ELSE IF ud.awaiting_timezone_selection
        THEN handle_timezone_selection(cfg, file, ud, message, t)
        ELSE Handled(cfg, file, ud, <<"reply_help">>)

\* what a chat types, given what it has been asked for
TextInputs(ud) ==
    {"hello"}
    \cup (IF ud.awaiting_campus_selection
          THEN {"Campus One", "Campus", "one", BackLabel} ELSE {})
    \cup (IF ud.awaiting_login THEN {"student", " student "} ELSE {})
    \cup (IF ud.awaiting_password_input THEN {"secret", CancelLabel} ELSE {})
    \cup (IF ud.awaiting_timezone_selection
          THEN {get_timezone_display_name(tz) : tz \in get_available_timezones}
               \cup {BackLabel}
          ELSE {})

\* any text that is not a command and matches no button
HandleTextInput(chat, message) ==
    LET done == handle_text_input(config, config_file, user_data[chat],
                                  message, now)
    IN  /\ message \in TextInputs(user_data[chat])
        /\ config' = IF IsAdmin(chat) THEN done.config ELSE config
        /\ config_file' = IF IsAdmin(chat) THEN done.config_file
                          ELSE config_file
        /\ user_data' = IF IsAdmin(chat)
                        THEN [user_data EXCEPT ![chat] = done.user_data]
                        ELSE user_data
        /\ obs' = From(chat,
                  IF IsAdmin(chat)
                  THEN Observe("handle_text_input", done.calls, None, NoList,
                               NoServer)
                  ELSE Observe("denied", <<>>, None, NoList, NoServer))
        /\ UNCHANGED <<token, token_expiry, last_notification_ids, is_running,
                       scheduler, stats, now, check_pc, to_send, run, hist>>

\* request_login, set_password and select_timezone: the prompt a button sets
Prompts == {"request_login", "set_password", "select_timezone"}

prompt(ud, handler) ==
    CASE handler = "request_login" -> [ud EXCEPT !.awaiting_login = TRUE]
      [] handler = "set_password" ->
            [ud EXCEPT !.awaiting_password_input = TRUE]
      [] handler = "select_timezone" ->
            [ud EXCEPT !.awaiting_timezone_selection = TRUE]

Prompt(chat, handler) ==
    /\ user_data' = IF IsAdmin(chat)
                    THEN [user_data EXCEPT ![chat] = prompt(@, handler)]
                    ELSE user_data
    /\ obs' = From(chat,
              IF IsAdmin(chat)
              THEN Observe(handler, <<"reply_prompt">>, None, NoList, NoServer)
              ELSE Observe("denied", <<>>, None, NoList, NoServer))
    /\ UNCHANGED <<config, config_file, token, token_expiry,
                   last_notification_ids, is_running, scheduler, stats, now,
                   check_pc, to_send, run, hist>>

\* select_campus, for the administrator: the session and the chat's
\* user_data after it
select_campus(s, cfg, ud, t, srv, srv2) ==
    LET auth == login_and_get_token(s, cfg, t, srv)
        campuses == get_campuses(auth.s, cfg, t, srv2)
    IN  IF ~Truthy(cfg.platform_login) \/ ~Truthy(cfg.platform_password)
        THEN [s |-> s, user_data |-> ud, ret |-> "no_credentials",
              calls |-> <<>>]
        ELSE IF ~Truthy(auth.ret)
        THEN [s |-> auth.s, user_data |-> ud, ret |-> "auth_failed",
              calls |-> auth.calls]
        ELSE IF ~campuses.ret.ok \/ campuses.ret.list = <<>>
        THEN [s |-> campuses.s, user_data |-> ud, ret |-> "no_campuses",
              calls |-> auth.calls \o campuses.calls]
        ELSE [s |-> campuses.s,
              user_data |-> [ud EXCEPT !.campuses = campuses.ret.list,
                                       !.awaiting_campus_selection = TRUE],
              ret |-> "keyboard",
              calls |-> auth.calls \o campuses.calls]

\* srv answers the login, srv2 the get_campuses that follows it
SelectCampus(chat, srv, srv2) ==
    LET done == select_campus(Session, config, user_data[chat], now, srv, srv2)
    IN  /\ token' = IF IsAdmin(chat) THEN done.s.token ELSE token
        /\ token_expiry' = IF IsAdmin(chat) THEN done.s.token_expiry
                           ELSE token_expiry
        /\ user_data' = IF IsAdmin(chat)
                        THEN [user_data EXCEPT ![chat] = done.user_data]
                        ELSE user_data
        /\ obs' = From(chat,
                  IF IsAdmin(chat)
                  THEN Observe("select_campus", done.calls, done.ret, NoList,
                               srv)
                  ELSE Observe("denied", <<>>, None, NoList, NoServer))
        /\ UNCHANGED <<config, config_file, last_notification_ids, is_running,
                       scheduler, stats, now, check_pc, to_send, run, hist>>

\* open_settings_menu and back_to_main_menu: a keyboard, for the
\* administrator
Menus == {"open_settings_menu", "back_to_main_menu"}

Menu(chat, handler) ==
    /\ obs' = From(chat,
              IF IsAdmin(chat)
              THEN Observe(handler, <<"reply_keyboard">>, None, NoList,
                           NoServer)
              ELSE Observe("denied", <<>>, None, NoList, NoServer))
    /\ UNCHANGED <<config, config_file, token, token_expiry,
                   last_notification_ids, is_running, scheduler, stats, now,
                   check_pc, to_send, run, hist, user_data>>

\* the fields of the configuration that show_settings prints: the login,
\* whether a password is set, the campus, the administrator's chat, what the
\* configuration lacks and the time of the last update
settings_text(cfg) ==
    <<cfg.platform_login, Truthy(cfg.platform_password), cfg.campus_name,
      cfg.admin_chat_id, get_config_status(cfg), cfg.last_update>>

\* show_settings: replies to the chat that asked
show_settings(chat, cfg) ==
    [op |-> "show_settings", calls |-> <<"reply_settings">>,
     shown |-> settings_text(cfg)]

ShowSettings(chat) ==
    LET done == show_settings(chat, config)
    IN  /\ obs' = From(chat, Showing(Observe(done.op, done.calls, None, NoList,
                                             NoServer), done.shown))
        /\ UNCHANGED <<config, config_file, token, token_expiry,
                       last_notification_ids, is_running, scheduler, stats,
                       now, check_pc, to_send, run, hist, user_data>>

\* the state that status prints: whether the monitoring runs, whether the
\* configuration is complete, the campus, the counters, whether a token is
\* held and when it expires
stats_text(cfg, running, st, s) ==
    <<running, get_config_status(cfg) = <<>>, cfg.campus_name, st,
      Truthy(s.token), s.token_expiry>>

\* status, for the administrator only
status(chat, cfg, running, st, s) ==
    IF chat = cfg.admin_chat_id
    THEN [op |-> "status", calls |-> <<"reply_status">>,
          shown |-> stats_text(cfg, running, st, s)]
    ELSE [op |-> "denied", calls |-> <<>>, shown |-> <<>>]

Status(chat) ==
    LET done == status(chat, config, is_running, stats, Session)
    IN  /\ obs' = From(chat, Showing(Observe(done.op, done.calls, None, NoList,
                                             NoServer), done.shown))
        /\ UNCHANGED <<config, config_file, token, token_expiry,
                       last_notification_ids, is_running, scheduler, stats,
                       now, check_pc, to_send, run, hist, user_data>>

-----------------------------------------------------------------------------
(* Specifications.  An environment E gives the answers the outside world   *)
(* may give; each action draws only the answers its handler asks for.      *)

NoCampuses == [kind |-> "response", status |-> 401, campuses |-> <<>>]
AuthServers(E) == Servers(E.apis, E.browsers, {0}, {NoCampuses}, {NoQuery})
CampusServers(E) == Servers(E.apis, E.browsers, E.probes, E.campuses, {NoQuery})
FetchServers(E) == Servers(E.apis, E.browsers, E.probes, {NoCampuses}, E.queries)
\* the platform refuses the query of a token its validation endpoint refuses
Coherent(srv) == srv.probe # 200 => srv.query.status = 401
CheckServers(E) ==
    {srv \in Servers(E.apis, E.browsers, E.probes, {NoCampuses}, E.queries) :
        Coherent(srv)}
WakeServers(E) ==
    {srv \in Servers({NoServer.api}, {NoBrowser}, E.probes, {NoCampuses},
                     E.queries) : Coherent(srv)}

\* the pages of a feed: the notifications of a feed order that the platform
\* returns, in that order, at most n of them
IsPageOf(l, feed) ==
    \A a, b \in DOMAIN l :
        a < b => FirstIndex(feed, l[a]) < FirstIndex(feed, l[b])

Pages(n) ==
    {l \in ListsUpTo(n) :
        \/ IsPageOf(l, <<Notification("A"), Notification("B"),
                         Notification("C"), Notification("D")>>)
        \/ IsPageOf(l, <<Notification("D"), Notification("C"),
                         Notification("B"), Notification("A")>>)}

SmallLists == {<<>>, <<Notification("A")>>, <<Notification("B"), Notification("A")>>}

\* a platform that answers or refuses, with one notification
Core ==
    [apis |-> {a \in ApiAnswers :
                  \/ a.access_token = "t1"
                  \/ a.kind = "response" /\ a.status = 401},
     browsers |-> {b \in BrowserAnswers :
                      b.kind = "timeout" \/ b.found[1] = "t2"},
     probes |-> {200, 401},
     campuses |-> {c \in CampusAnswers : c.status = 200 /\ c.campuses # <<>>},
     queries |-> {q \in QueryAnswers(SmallLists) : q.kind = "response"}]

\* every answer of the identity provider
Logins_ == [Core EXCEPT !.apis = ApiAnswers]

\* a platform whose identity provider and browser login refuse
Refusing ==
    [Core EXCEPT !.apis = {a \in ApiAnswers : a.status = 401},
                 !.browsers = {b \in BrowserAnswers : b.kind = "timeout"}]

\* every page of the feed, behind a login that works
Feed == [Core EXCEPT !.apis = {a \in ApiAnswers : a.access_token = "t1"},
                     !.browsers = {NoBrowser},
                     !.queries = QueryAnswers(Pages(MaxFetchLen))]

\* the chat that is, or would become, the administrator
Administrator == "100"

\* the session authenticator under the administrator's commands
NextAuth ==
    \/ \E chat \in Chats : StartCommand(chat)
    \/ \E chat \in Chats : ResetSettings(chat)
    \/ \E chat \in Chats, srv \in AuthServers(Logins_),
          srv2 \in CampusServers(Refusing) : TestAuth(chat, srv, srv2)
    \/ \E chat \in Chats, srv \in FetchServers(Core) :
          LastNotificationCommand(chat, srv)
    \/ \E d \in TickSteps : Tick(d)

SpecAuth == Init /\ [][NextAuth]_vars

\* the delta tracker under monitoring
NextDelta ==
    \/ \E chat \in Chats, srv \in AuthServers(Feed) :
          StartMonitoring(chat, srv, TRUE)
    \/ \E srv \in CheckServers(Feed) : CheckStart(srv)
    \/ CheckSend(TRUE)

SpecDelta == Init /\ [][NextDelta]_vars

\* the periodic check and the fetch operations, with time passing
NextPoll ==
    \/ ResetSettings(Administrator)
    \/ \E srv \in AuthServers(Core) :
          StartMonitoring(Administrator, srv, TRUE)
    \/ \E srv \in AuthServers(Core) : DailyAuthJob(srv)
    \/ \E srv \in CheckServers(Core) : CheckStart(srv)
    \/ \E srv \in WakeServers(Core) : CheckWake(srv)
    \/ CheckSend(TRUE)
    \/ \E d \in TickSteps : Tick(d)

SpecPoll == Init /\ [][NextPoll]_vars

\* starting and stopping the monitoring
NextMonitor ==
    \/ \E chat \in Chats : StartCommand(chat)
    \/ \E chat \in Chats : ResetSettings(chat)
    \/ \E chat \in Chats, srv \in AuthServers(Core), reply_ok \in BOOLEAN :
          StartMonitoring(chat, srv, reply_ok)
    \/ \E chat \in Chats, cancels \in BOOLEAN : StopMonitoring(chat, cancels)
    \/ \E srv \in AuthServers(Core) : DailyAuthJob(srv)
    \/ \E srv \in CheckServers(Core) : CheckStart(srv)
    \/ \E delivered \in BOOLEAN : CheckSend(delivered)

SpecMonitor == Init /\ [][NextMonitor]_vars

\* a platform whose feed holds at most one notification: after the baseline
\* nothing is new, and the periodic check has nothing to send
Quiet == [Core EXCEPT !.queries = {q \in @ : Len(q.notifications) <= 1}]

\* stopping while the periodic check is under way, with time passing
NextStop ==
    \/ \E srv \in AuthServers(Core) :
          StartMonitoring(Administrator, srv, TRUE)
    \/ \E cancels \in BOOLEAN : StopMonitoring(Administrator, cancels)
    \/ \E srv \in AuthServers(Core) : DailyAuthJob(srv)
    \/ \E srv \in CheckServers(Quiet) : CheckStart(srv)
    \/ \E srv \in WakeServers(Quiet) : CheckWake(srv)
    \/ \E d \in TickSteps : Tick(d)

SpecStop == Init /\ [][NextStop]_vars

\* the configuration under any update_setting calls and resets
\* a platform that accepts the login and lists its campus
Accepting ==
    [Core EXCEPT !.apis = {a \in ApiAnswers : a.access_token = "t1"},
                 !.browsers = {NoBrowser},
                 !.probes = {200}]

\* the fetch operations of the platform manager, called with and without a
\* token and a campus
NextFetch ==
    \/ \E chat \in Chats : StartCommand(chat)
    \/ \E chat \in Chats : ResetSettings(chat)
    \/ \E chat \in Chats, srv \in AuthServers(Core),
          srv2 \in CampusServers(Refusing) : TestAuth(chat, srv, srv2)
    \/ \E srv \in FetchServers(Core) : GetNotifications(srv)
    \/ \E srv \in FetchServers(Core) : GetLastNotification(srv)

SpecFetch == Init /\ [][NextFetch]_vars

\* the pages that hold A, B or both
TwoPages ==
    {<<>>, <<Notification("A")>>, <<Notification("B")>>,
     <<Notification("A"), Notification("B")>>,
     <<Notification("B"), Notification("A")>>}

\* a platform that accepts the login and answers the notification query with
\* a body of any shape
Shaped ==
    [Accepting EXCEPT !.queries = QueryAnswers(TwoPages)
                                      \cup ShapedAnswers(TwoPages)]

\* the notification query, called again and again on a session
NextFeed ==
    \/ TestAuth(Administrator, CHOOSE srv \in AuthServers(Accepting) : TRUE,
                CHOOSE srv \in CampusServers(Accepting) : TRUE)
    \/ \E srv \in FetchServers(Shaped) : GetNotifications(srv)
    \/ \E srv \in FetchServers(Shaped) : GetNewNotifications(srv)

SpecFeed == Init /\ [][NextFeed]_vars

\* a platform that hands out a fresh token at every login it accepts, and
\* whose feed holds one notification
Renewing ==
    [Core EXCEPT !.apis = {a \in ApiAnswers :
                              \/ Truthy(a.access_token)
                              \/ a.kind = "response" /\ a.status = 401},
                 !.browsers = {NoBrowser},
                 !.queries = {q \in @ : \/ q.status = 401
                                        \/ q.notifications
                                               = <<Notification("A")>>}]

\* every operation that authenticates: the scheduled job, the inline
\* re-authentication of the check, the administrator's commands and the
\* re-authentication of get_campuses and get_last_notification
NextSession ==
    \/ \E srv \in AuthServers(Renewing) :
          StartMonitoring(Administrator, srv, TRUE)
    \/ \E srv \in AuthServers(Renewing) : DailyAuthJob(srv)
    \/ \E srv \in CheckServers(Renewing) : CheckStart(srv)
    \/ \E srv \in WakeServers(Renewing) : CheckWake(srv)
    \/ \E srv \in AuthServers(Renewing), srv2 \in CampusServers(Renewing) :
          TestAuth(Administrator, srv, srv2)
    \/ \E srv \in FetchServers(Renewing) :
          LastNotificationCommand(Administrator, srv)
    \/ \E d \in TickSteps : Tick(d)

SpecSession == Init /\ [][NextSession]_vars

\* a platform whose feed grows from [A] to [A, B]
Growing ==
    [Accepting EXCEPT
        !.queries = {q \in QueryAnswers({<<Notification("A")>>,
                                         <<Notification("A"),
                                           Notification("B")>>}) :
                        q.kind = "response" /\ q.status = 200}]

\* the periodic check with deliveries that fail, and polls made outside the
\* job
NextDeliver ==
    \/ \E srv \in AuthServers(Growing) :
          StartMonitoring(Administrator, srv, TRUE)
    \/ \E srv \in CheckServers(Growing) : CheckStart(srv)
    \/ \E delivered \in BOOLEAN : CheckSend(delivered)
    \/ \E srv \in FetchServers(Growing) : GetNewNotifications(srv)

SpecDeliver == Init /\ [][NextDeliver]_vars

\* the browser tier, whatever the identity provider answers
Browsers == [Core EXCEPT !.browsers = BrowserSessions]

\* the browser login, called directly and as the fallback of a login
NextBrowser ==
    \/ \E chat \in Chats : StartCommand(chat)
    \/ \E browser \in BrowserSessions : LoginViaSelenium(browser)
    \/ \E chat \in Chats, srv \in AuthServers(Browsers),
          srv2 \in CampusServers(Refusing) : TestAuth(chat, srv, srv2)

SpecBrowser == Init /\ [][NextBrowser]_vars

\* the handlers of the settings dialogue and /start, called from both chats
NextSettings ==
    \/ \E chat \in Chats : StartCommand(chat)
    \/ \E chat \in Chats, handler \in {"request_login", "set_password"} :
            Prompt(chat, handler)
    \/ \E chat \in Chats : \E message \in TextInputs(user_data[chat]) :
            HandleTextInput(chat, message)
    \/ \E chat \in Chats, srv \in AuthServers(Accepting),
          srv2 \in CampusServers(Accepting) : SelectCampus(chat, srv, srv2)
    \/ \E chat \in Chats, handler \in Menus : Menu(chat, handler)
    \/ \E chat \in Chats : ShowSettings(chat)
    \/ \E chat \in Chats : Status(chat)
    \/ \E chat \in Chats : ResetSettings(chat)

SpecSettings == Init /\ [][NextSettings]_vars

\* the selection of the time zone
NextZone ==
    \/ \E chat \in Chats : StartCommand(chat)
    \/ \E chat \in Chats : Prompt(chat, "select_timezone")
    \/ \E chat \in Chats : \E message \in TextInputs(user_data[chat]) :
            HandleTextInput(chat, message)
    \/ \E chat \in Chats : ShowSettings(chat)
    \/ \E chat \in Chats : ResetSettings(chat)

SpecZone == Init /\ [][NextZone]_vars

NextConfig ==
    \/ \E key \in SettingKeys :
          \E value \in SettingValues(key) : UpdateSetting(key, value)
    \/ \E chat \in Chats : StartCommand(chat)
    \/ \E chat \in Chats : ResetSettings(chat)

SpecConfig == Init /\ [][NextConfig]_vars

-----------------------------------------------------------------------------
(* Properties *)

Login == "login_and_get_token"
TierEvents == {"api_login", "selenium_login"}

\* the tier attempts of the first login_and_get_token call among the calls
TiersOfFirstLogin(calls) ==
    LET rest == SubSeq(calls, FirstIndex(calls, Login) + 1, Len(calls))
        k == CHOOSE k \in 0..Len(rest) :
                 /\ \A j \in 1..k : rest[j] \in TierEvents
                 /\ k = Len(rest) \/ rest[k + 1] \notin TierEvents
    IN  SubSeq(rest, 1, k)

\* the identity provider answered with a token
ApiYieldsToken(a) ==
    a.kind = "response" /\ a.status = 200 /\ Truthy(a.access_token)

\* a stretch whose login_and_get_token calls all returned None
LoginFailed(calls) ==
    Login \in Range(calls) /\ "returned_token" \notin Range(calls)

CredentialsEmpty ==
    ~Truthy(config.platform_login) \/ ~Truthy(config.platform_password)

\* C1, as stated: every login_and_get_token call attempts the API tier first
\* and exactly once, and the browser tier exactly once iff the API tier
\* yielded no token.  Refuted by a call made with an empty login or password,
\* which attempts no tier at all.
C1_EveryCallTriesApi ==
    Login \in Range(obs.calls) =>
        TiersOfFirstLogin(obs.calls) =
            IF ApiYieldsToken(obs.api) THEN <<"api_login">>
            ELSE <<"api_login", "selenium_login">>

\* C1, amended: a login_and_get_token call made with a non-empty login and
\* password attempts the API tier first and exactly once, and the browser tier
\* exactly once iff the API tier yielded no token (never when it returned
\* one); a call made with an empty login or password attempts neither tier.
C1_TiersInOrder ==
    Login \in Range(obs.calls) =>
        TiersOfFirstLogin(obs.calls) =
            IF CredentialsEmpty THEN <<>>
            ELSE IF ApiYieldsToken(obs.api) THEN <<"api_login">>
            ELSE <<"api_login", "selenium_login">>

\* a login whose API tier got a 200 without a token and fell to the browser
C1_Witness ==
    /\ Login \in Range(obs.calls)
    /\ obs.api.kind = "response" /\ obs.api.status = 200
    /\ ~Truthy(obs.api.access_token)
    /\ TiersOfFirstLogin(obs.calls) = <<"api_login", "selenium_login">>

\* C2: a stretch whose authentication returns no token (both tiers failed, or
\* login or password empty) leaves token and token_expiry as they were; the
\* two fields change only in a stretch whose login returned a token.
C2_FailedLoginKeepsSession ==
    [][/\ LoginFailed(obs'.calls) =>
              token' = token /\ token_expiry' = token_expiry
       /\ (token' # token \/ token_expiry' # token_expiry) =>
              "returned_token" \in Range(obs'.calls)]_vars

\* both tiers have just failed while an expired token was stored
C2_Witness ==
    /\ LoginFailed(obs.calls)
    /\ TiersOfFirstLogin(obs.calls) = <<"api_login", "selenium_login">>
    /\ Truthy(token)
    /\ token_expiry # Nothing /\ token_expiry[1] < now

CheckFetched == obs.op = "check_notifications" /\ obs.fetched.ok

\* C3, as stated: the first successful fetch since the start returns nothing
\* and adopts its ids as the seen-set, and every later successful fetch is
\* diffed against the fetch before it, also when the first one was empty.
\* Refuted: after a first successful fetch of zero notifications the next
\* fetch is suppressed as well.
C3_OnlyFirstFetchSuppressed ==
    CheckFetched =>
        IF hist.fetches = 1
        THEN /\ obs.ret = <<>>
             /\ last_notification_ids = ids_of(obs.fetched.list)
        ELSE obs.ret = SelectSeq(obs.fetched.list,
                                 LAMBDA n : n.id \notin ids_of(hist.prev.list))

\* C4: once the baseline is adopted, a get_new_notifications call whose fetch
\* succeeds returns exactly the fetched notifications whose id is not in the
\* seen-set the call found, in the order of the fetched list.
C4_ReturnsTheUnseen ==
    [][(/\ obs'.op = "check_notifications"
        /\ obs'.fetched.ok
        /\ last_notification_ids # {}) =>
           obs'.ret = SelectSeq(obs'.fetched.list,
                                LAMBDA n : n.id \notin last_notification_ids)]_vars

ABC == <<Notification("A"), Notification("B"), Notification("C")>>
ABCD == <<Notification("A"), Notification("B"), Notification("C"),
          Notification("D")>>
ACD == <<Notification("A"), Notification("C"), Notification("D")>>

\* baseline [A,B,C], then a fetch [A,B,C,D] that returned [D]
C4_Witness ==
    /\ CheckFetched
    /\ hist.prev = List(ABC)
    /\ obs.fetched = List(ABCD)
    /\ obs.ret = <<Notification("D")>>

\* C5, as stated: after every successful fetch, also one of zero
\* notifications, last_notification_ids is the set of ids of that fetch.
\* Refuted: a successful fetch of zero notifications leaves the older set.
C5_SeenSetIsLastFetch ==
    CheckFetched => last_notification_ids = ids_of(obs.fetched.list)

SecondFetchACD ==
    /\ CheckFetched
    /\ hist.fetches = 2
    /\ hist.prev = List(ABC)
    /\ obs.fetched = List(ACD)

\* C6, as stated: after a first successful fetch [A,B,C], a second call whose
\* fetch returns [A,C,D] returns no new notifications and rebases the seen-set
\* to {A,C,D}.  Refuted: D is outside the baseline and is returned.
C6_SecondFetchReturnsNothing ==
    SecondFetchACD =>
        obs.ret = <<>> /\ last_notification_ids = {"A", "C", "D"}

\* C6, amended: after a first successful fetch [A,B,C], a second call whose
\* fetch returns [A,C,D] returns exactly [D] and rebases the seen-set to
\* {A,C,D}.
C6_SecondFetchReturnsD ==
    SecondFetchACD =>
        /\ obs.ret = <<Notification("D")>>
        /\ last_notification_ids = {"A", "C", "D"}

\* the second fetch [A,C,D] after [A,B,C] has handed D over for sending
C6_Witness == SecondFetchACD /\ to_send = <<Notification("D")>>

\* get_last_notification and get_campuses (inside test_auth, after its own
\* login) re-authenticate exactly once when the probe refuses the token
ProbingFetchesReauthenticateOnce ==
    /\ (obs.op = "get_last_notification" /\ "validate_token" \in Range(obs.calls)) =>
           Count(obs.calls, Login) = IF obs.probe = 200 THEN 0 ELSE 1
    /\ (obs.op = "test_auth" /\ "validate_token" \in Range(obs.calls)) =>
           Count(obs.calls, Login) = 1 + IF obs.probe = 200 THEN 0 ELSE 1

\* C7, as stated: when the validation endpoint refuses the stored token, every
\* fetch operation makes exactly one re-authentication attempt before its
\* request: the periodic get_notifications, get_last_notification and
\* get_campuses.  Refuted by the periodic get_notifications, which sends its
\* query without probing and without re-authenticating.
C7_EveryFetchReauthenticates ==
    /\ (/\ obs.op = "check_notifications"
        /\ "notifications_request" \in Range(obs.calls)
        /\ obs.probe # 200) =>
           Count(run.log, "daily_auth") = 1
    /\ obs.probe # 200 => ProbingFetchesReauthenticateOnce

\* C8: a check_notifications run that starts while Running with the token
\* absent, its expiry absent or its expiry earlier than now re-authenticates
\* exactly once, sleeps, and then fetches without another login; a run that
\* finds a present, unexpired token fetches at once without any login.
C8_OneReauthWhenStale ==
    [][/\ stats'.total_checks # stats.total_checks =>
              IF \/ ~Truthy(token)
                 \/ token_expiry = Nothing
                 \/ token_expiry[1] < now
              THEN /\ run'.log = <<"daily_auth">>
                   /\ Count(obs'.calls, Login) = 1
                   /\ "notifications_request" \notin Range(obs'.calls)
                   /\ check_pc' = "sleeping"
              ELSE /\ run'.log = <<"get_new_notifications">>
                   /\ Count(obs'.calls, Login) = 0
       /\ (/\ check_pc = "sleeping"
           /\ obs'.op = "check_notifications") =>
              /\ run'.log = <<"daily_auth", "get_new_notifications">>
              /\ Count(obs'.calls, Login) = 0]_vars

\* a run that re-authenticated once and has then sent its query
C8_Witness ==
    /\ obs.op = "check_notifications"
    /\ run.log = <<"daily_auth", "get_new_notifications">>
    /\ obs.calls = <<"notifications_request">>

\* C9, as stated: whenever check_notifications sends the notification query,
\* the token is present and now < token_expiry, also after a failed inline
\* re-authentication.  Refuted: after the failed re-authentication the query
\* goes out with the expired token that is still stored.
C9_QueryOnlyWithUsableToken ==
    (obs.op = "check_notifications"
     /\ "notifications_request" \in Range(obs.calls)) =>
        /\ Truthy(token)
        /\ token_expiry # Nothing
        /\ now < token_expiry[1]

\* the query of a run whose inline re-authentication failed, sent with a
\* token that expired before now
QueryAfterFailedReauth ==
    /\ obs.op = "check_notifications"
    /\ obs.calls = <<"notifications_request">>
    /\ run.log = <<"daily_auth", "get_new_notifications">>
    /\ Truthy(token)
    /\ token_expiry # Nothing /\ token_expiry[1] < now

ConfigComplete ==
    /\ Truthy(config.platform_login)
    /\ Truthy(config.platform_password)
    /\ Truthy(config.school_id)
    /\ Truthy(config.admin_chat_id)

BothJobs == {"daily_auth", "check_notifications"}

\* C10, as stated: start_monitoring reaches Running (is_running with both jobs
\* scheduled) only with a complete configuration and an initial login that
\* returned a token; with an incomplete configuration it attempts no login
\* and changes nothing; after a failed initial login is_running is false and
\* no job is scheduled.  Refuted: when the reply that reports the failed login
\* raises, is_running stays true.
C10_StartGate ==
    [][obs'.op = "start_monitoring" =>
          /\ (~is_running /\ is_running') =>
                 /\ ConfigComplete
                 /\ "returned_token" \in Range(obs'.calls)
                 /\ scheduler'.running
                 /\ BothJobs \subseteq scheduler'.jobs
          /\ ~ConfigComplete =>
                 /\ Login \notin Range(obs'.calls)
                 /\ is_running' = is_running
                 /\ scheduler' = scheduler
          /\ LoginFailed(obs'.calls) =>
                 /\ ~is_running'
                 /\ scheduler'.jobs = {}]_vars

\* the same gate for the calls whose replies reach Telegram
StartGateWhenReplied ==
    [][(obs'.op = "start_monitoring" /\ obs'.ret # "reply_raised") =>
          /\ (~is_running /\ is_running') =>
                 /\ ConfigComplete
                 /\ "returned_token" \in Range(obs'.calls)
                 /\ scheduler'.running
                 /\ BothJobs \subseteq scheduler'.jobs
          /\ ~ConfigComplete =>
                 /\ Login \notin Range(obs'.calls)
                 /\ is_running' = is_running
                 /\ scheduler' = scheduler
          /\ LoginFailed(obs'.calls) =>
                 /\ ~is_running'
                 /\ scheduler'.jobs = {}]_vars

PeriodicOps == {"check_notifications", "daily_auth", "send_notification"}

FetchAfterStop ==
    /\ ~is_running
    /\ obs.op = "check_notifications"
    /\ run.log = <<"daily_auth", "get_new_notifications">>
    /\ obs.calls = <<"notifications_request">>

\* C12: stop_monitoring by the administrator on a Stopped system reports
\* "already stopped" and changes neither is_running, nor the scheduler and
\* its jobs, nor the session, nor the seen-set, nor the configuration.
C12_StopOnStoppedIsNoOp ==
    [][(obs'.op = "stop_monitoring" /\ ~is_running) =>
          /\ obs'.ret = "already_stopped"
          /\ UNCHANGED <<is_running, scheduler, token, token_expiry,
                         last_notification_ids, config, config_file>>]_vars

\* a stop on a system that had been running and was stopped before
C12_Witness ==
    /\ obs.op = "stop_monitoring"
    /\ obs.ret = "already_stopped"
    /\ ~is_running
    /\ Truthy(token)

ConfiguredFlag ==
    /\ Truthy(config.platform_login)
    /\ Truthy(config.school_id)
    /\ Truthy(config.admin_chat_id)

\* C13: in every state reached through update_setting calls (any key, any
\* value) and reset_settings, is_configured is true exactly when
\* platform_login, school_id and admin_chat_id are all non-empty, whatever the
\* password.
C13_ConfiguredIsConjunction == config.is_configured = ConfiguredFlag

\* configured without a password, after an update_setting
C13_Witness ==
    /\ obs.op = "update_setting"
    /\ config.is_configured
    /\ config.platform_password = ""

\* C14: after every save_config, reached through update_setting of any key
\* or through reset_settings, the persisted file has no platform_password
\* entry.
C14_PasswordNotPersisted ==
    config_file # Nothing => "platform_password" \notin DOMAIN config_file[1]

\* update_setting("platform_password", v) has just saved the file
C14_Witness ==
    /\ obs.op = "update_setting"
    /\ obs.args[1] = "platform_password"
    /\ Truthy(obs.args[2])
    /\ config.platform_password = obs.args[2]
    /\ config_file # Nothing
    /\ config_file[1].last_update = config.last_update

\* C15, as stated: update_setting("timezone", v) with v not a valid zone name
\* returns without raising and leaves the configuration and the file as they
\* were.  Refuted: for a name that zoneinfo refuses as a key (the empty
\* string, an absolute path) the call raises ValueError.
C15_InvalidZoneIsIgnored ==
    [][(/\ obs'.op = "update_setting"
        /\ obs'.args[1] = "timezone"
        /\ obs'.args[2] \notin ValidZones) =>
           /\ obs'.ret = None
           /\ UNCHANGED <<config, config_file>>]_vars

\* the part of C15 that holds: whatever the invalid name, the configuration
\* and the file are left as they were
InvalidZoneChangesNothing ==
    [][(/\ obs'.op = "update_setting"
        /\ obs'.args[1] = "timezone"
        /\ obs'.args[2] \notin ValidZones) =>
           UNCHANGED <<config, config_file>>]_vars

FromStranger ==
    /\ Truthy(config.admin_chat_id)
    /\ obs'.op # "update_setting"
    /\ obs'.args # <<>>
    /\ obs'.args[1] # config.admin_chat_id

\* C17: once an administrator is set, a message from another chat changes
\* no configuration, session or monitoring state and is shown none of the
\* bot's state, whichever handler receives it
C17_EveryHandlerIsGated ==
    [][FromStranger
          => /\ UNCHANGED <<config, config_file, token, token_expiry,
                            last_notification_ids, is_running, scheduler,
                            user_data>>
             /\ obs'.shown = <<>>]_vars

\* what does hold: another chat changes nothing, and only show_settings
\* answers it with the bot's state
OnlyShowSettingsAnswersStrangers ==
    [][FromStranger
          => /\ UNCHANGED <<config, config_file, token, token_expiry,
                            last_notification_ids, is_running, scheduler,
                            user_data>>
             /\ obs'.shown # <<>> => obs'.op = "show_settings"]_vars

\* the browser tier has run, its setup returned a driver and its wait saw a
\* success signal
BrowserSignalled ==
    /\ "selenium_login" \in Range(obs.calls)
    /\ obs.browser.setup # "failed"
    /\ obs.browser.kind = "signal"

\* C18: when the wait of the browser tier sees a success signal,
\* login_via_selenium returns the first non-empty token of local storage,
\* session storage, cookies, URL and page content, in that order; so a login
\* that falls back to a browser whose local storage holds a token returns
\* that token and stores it
C18_FirstTokenIsReturned ==
    /\ (obs.op = "login_via_selenium" /\ BrowserSignalled)
          => obs.ret = first_token(obs.browser.found)
    /\ (obs.op = "test_auth" /\ BrowserSignalled
          /\ Truthy(obs.browser.found[1]))
          => /\ obs.ret = obs.browser.found[1]
             /\ token = obs.browser.found[1]

\* what does hold: the browser tier never returns a token
BrowserTierReturnsNothing ==
    /\ obs.op = "login_via_selenium" => obs.ret = None
    /\ obs.op # "login_via_selenium"
          => \A i \in DOMAIN obs.calls :
                 obs.calls[i] = "selenium_login"
                     => i < Len(obs.calls) /\ obs.calls[i + 1] = "returned_None"

\* the browser signalled success with a token in local storage, and the
\* login that fell back to it returned none
LocalStorageTokenIsLost ==
    /\ obs.op = "test_auth"
    /\ BrowserSignalled
    /\ Truthy(obs.browser.found[1])
    /\ obs.ret = None

\* C19: every browser session created during login_via_selenium, that of
\* the first attempt of setup_driver included, has been quit when
\* login_via_selenium returns
C19_EverySessionIsQuit ==
    obs.op = "login_via_selenium"
        => Range(obs.drivers.created) \subseteq Range(obs.drivers.quit)

\* what does hold: the driver that setup_driver returned is quit, whatever
\* the page did
ReturnedDriverIsQuit ==
    (obs.op = "login_via_selenium" /\ obs.browser.setup # "failed")
        => /\ Len(obs.drivers.quit) = 1
           /\ obs.drivers.quit[1] =
                  obs.drivers.created[Len(obs.drivers.created)]

\* the step is a fetch operation called without a token or without a campus
FetchWithoutTokenOrSchool ==
    /\ obs'.op \in {"get_notifications", "get_last_notification()"}
    /\ ~Truthy(token) \/ ~Truthy(config.school_id)

\* C20: get_notifications and get_last_notification send no request at
\* all (no validation probe, no re-authentication, no query) when the token
\* or the school_id is empty
C20_NoRequestWithoutTokenOrSchool ==
    [][FetchWithoutTokenOrSchool => obs'.calls = <<>>]_vars

\* what does hold: without a token neither operation sends anything,
\* get_notifications sends nothing without a campus either, and
\* get_last_notification without a campus never sends the query
QueryNeedsTokenAndSchool ==
    [][FetchWithoutTokenOrSchool
          => /\ ~Truthy(token) => obs'.calls = <<>>
             /\ obs'.op = "get_notifications" => obs'.calls = <<>>
             /\ "last_notification_request" \notin Range(obs'.calls)
             /\ "notifications_request" \notin Range(obs'.calls)]_vars

\* get_last_notification has probed and re-authenticated for a
\* configuration that has no campus
ProbedWithoutSchool ==
    /\ obs.op = "get_last_notification()"
    /\ ~Truthy(config.school_id)
    /\ "validate_token" \in Range(obs.calls)
    /\ Login \in Range(obs.calls)

\* the step is a call of op whose query was answered with status 200 and a
\* body that parses
Answered200(o, op) ==
    /\ o.op = op
    /\ o.query.kind = "response"
    /\ o.query.status = 200

\* C21: an errors entry in a 200 response makes the fetch fail (it returns
\* no list), and get_new_notifications then reports nothing and leaves the
\* seen-set unchanged
C21_ErrorsFailTheFetch ==
    [][/\ (Answered200(obs', "get_notifications") /\ obs'.query.errors)
             => obs'.ret = NoList
       /\ (Answered200(obs', "get_new_notifications") /\ obs'.query.errors)
             => /\ obs'.fetched = NoList
                /\ obs'.ret = <<>>
                /\ last_notification_ids' = last_notification_ids]_vars

\* get_new_notifications was answered with an errors entry beside a list
\* that holds an id outside the non-empty seen-set
C21_Witness ==
    /\ Answered200(obs, "get_new_notifications")
    /\ obs.query.errors
    /\ last_notification_ids # {}
    /\ ~(ids_of(obs.query.notifications) \subseteq last_notification_ids)
    /\ obs.ret = <<>>

\* C22: for a 200 response without errors, get_notifications returns the
\* notifications array, or an empty list whenever one of the nested keys
\* data, s21Notification, getS21Notifications, notifications is missing or
\* null, and it never raises on such a shape
C22_UnexpectedShapeGivesEmptyList ==
    (Answered200(obs, "get_notifications") /\ ~obs.query.errors)
        => /\ obs.raised = None
           /\ obs.ret = IF obs.query.body = WellFormed
                        THEN List(obs.query.notifications)
                        ELSE List(<<>>)

\* what does hold: the array when the chain of keys is whole, an empty list
\* when a key is missing
MissingKeyGivesEmptyList ==
    (/\ Answered200(obs, "get_notifications")
     /\ ~obs.query.errors
     /\ obs.query.body.how # "null")
        => /\ obs.raised = None
           /\ obs.ret = IF obs.query.body = WellFormed
                        THEN List(obs.query.notifications)
                        ELSE List(<<>>)

\* get_notifications raised on a body whose data entry is null
NullDataRaises ==
    /\ Answered200(obs, "get_notifications")
    /\ ~obs.query.errors
    /\ obs.query.body = Body(1, "null")
    /\ obs.raised = "AttributeError"

\* get_notifications returned no list for a body whose notifications entry
\* is null
NullNotificationsGivesNone ==
    /\ Answered200(obs, "get_notifications")
    /\ ~obs.query.errors
    /\ obs.query.body = Body(Len(NestedKeys), "null")
    /\ obs.raised = None
    /\ obs.ret = NoList

\* C26: in every state reachable from the default configuration through
\* update_setting and reset_settings the stored timezone is a valid IANA zone
\* name
C26_TimezoneIsValid ==
    ZoneInfo(config.timezone) = "zone"

\* what does hold: no call stores a timezone that ZoneInfo does not accept
StoredZonesAreValid ==
    [][config'.timezone # config.timezone
          => ZoneInfo(config'.timezone) = "zone"]_vars

\* the default configuration holds a timezone that update_setting itself
\* would refuse
DefaultZoneIsRefused ==
    /\ config.timezone = get_default_config.timezone
    /\ ZoneInfo(config.timezone) = "ZoneInfoNotFoundError"
    /\ obs.op = "update_setting"
    /\ obs.args = <<"timezone", get_default_config.timezone>>

\* the operations that call login_and_get_token once at most
SingleLoginOps == {"daily_auth", "start_monitoring", "check_notifications"}

\* the session after the step has both fields or neither, and when the step
\* changed either, both are what a login that returned a token in this
\* stretch wrote
PairWrittenByOneLogin ==
    /\ Truthy(token') = (token_expiry' # Nothing)
    /\ (token' # token \/ token_expiry' # token_expiry)
          => /\ "returned_token" \in Range(obs'.calls)
             /\ token' \in Tokens
             /\ token_expiry' \in {Some(now + ApiTokenHours),
                                    Some(now + SeleniumTokenHours)}
             /\ obs'.op \in SingleLoginOps
                   => token' = obs'.api.access_token

\* C27: token and token_expiry are both absent or both present, and a pair
\* that is present was written by one and the same successful authentication
\* call, whether it was scheduled, inline, sent by the administrator or made
\* by get_campuses or get_last_notification
C27_TokenAndExpiryAreOnePair ==
    [][PairWrittenByOneLogin]_vars

\* test_auth has replaced a pair: its first login was accepted, the token was
\* then refused by the campuses endpoint, and get_campuses logged in again
C27_Witness ==
    /\ obs.op = "test_auth"
    /\ Len(SelectSeq(obs.calls, LAMBDA c : c = "returned_token")) = 2
    /\ Truthy(token)
    /\ token_expiry = Some(now + ApiTokenHours)
    /\ now > 0

\* monitoring is Running: the flag is set and both jobs are scheduled
Running ==
    /\ is_running
    /\ scheduler.running
    /\ BothJobs \subseteq scheduler.jobs

\* C28: whenever monitoring is Running the configuration is complete (login,
\* password, school_id and admin_chat_id non-empty); in particular
\* reset_settings while Running does not leave is_running true and the jobs
\* scheduled with cleared credentials
C28_RunningImpliesComplete ==
    Running => ConfigComplete

\* what does hold: every step other than reset_settings keeps a Running
\* monitor's configuration complete
OnlyResetEmptiesARunningMonitor ==
    [][(Running /\ ConfigComplete /\ Running' /\ ~ConfigComplete')
          => obs'.op = "reset_settings"]_vars

\* reset_settings has cleared the credentials under a Running monitor
RunningAfterReset ==
    /\ obs.op = "reset_settings"
    /\ Running
    /\ ~Truthy(config.platform_login)
    /\ ~Truthy(config.platform_password)
    /\ ~Truthy(config.school_id)

\* the text the administrator types in answer to the password prompt
PasswordText == "secret"

\* the keys of the configuration whose values are strings
StringKeys ==
    {"platform_login", "school_id", "campus_name", "admin_chat_id",
     "timezone"}

\* C29: the text sent after 'Set password' was pressed is stored only as the
\* in-memory password: it is never written to platform_login, never echoed
\* back in a reply (the reply to a saved login quotes the text) and never
\* persisted, whatever buttons were pressed before
C29_PasswordTextOnlyInMemory ==
    /\ \A k \in StringKeys : config[k] # PasswordText
    /\ config_file # Nothing
          => /\ \A k \in StringKeys : config_file[1][k] # PasswordText
             /\ "platform_password" \notin DOMAIN config_file[1]

\* what does hold: with the password prompt the only one pending, the text
\* goes to platform_password alone, the reply does not quote it and the file
\* keeps the strings it had
PasswordPromptAloneIsSafe ==
    [][(/\ obs'.op = "handle_text_input"
        /\ user_data[Administrator].awaiting_password_input
        /\ ~user_data[Administrator].awaiting_login
        /\ ~user_data[Administrator].awaiting_campus_selection)
          => /\ \A k \in StringKeys : config'[k] = config[k]
             /\ "reply_login_saved" \notin Range(obs'.calls)
             /\ config_file' # Nothing
                   => /\ "platform_password" \notin DOMAIN config_file'[1]
                      /\ \A k \in StringKeys :
                             config_file'[1][k] = config[k]]_vars

\* 'Set login' then 'Set password' were pressed and the password text was
\* taken for the login: stored as platform_login, written to the file and
\* quoted in the reply
PasswordSavedAsLogin ==
    /\ obs.op = "handle_text_input"
    /\ obs.calls = <<"reply_login_saved">>
    /\ config.platform_login = PasswordText
    /\ config_file[1].platform_login = PasswordText
    /\ user_data[Administrator].awaiting_password_input

\* the step is a poll: get_new_notifications called by the check or directly
Polled(o) ==
    /\ o.op \in {"check_notifications", "get_new_notifications"}
    /\ o.fetched.ok

\* a poll queues what it returned, once; a send takes the head of the queue,
\* whether it is delivered or not, and puts nothing back; the last send adds
\* the number found to notifications_sent; and a poll returns no id of the
\* seen-set, in which the ids of the last page stay
HandedOverOnce ==
    /\ (obs'.op = "check_notifications" /\ obs'.fetched.ok)
          => /\ to_send' = obs'.ret
             /\ run'.found = Len(obs'.ret)
             /\ Cardinality(ids_of(obs'.ret)) = Len(obs'.ret)
    /\ obs'.op = "send_notification"
          => /\ obs'.ret = Head(to_send).id
             /\ to_send' = Tail(to_send)
             /\ Len(obs'.calls) <= 1
             /\ last_notification_ids' = last_notification_ids
             /\ stats'.notifications_sent =
                    IF to_send' = <<>>
                    THEN stats.notifications_sent + run.found
                    ELSE stats.notifications_sent
    /\ Polled(obs')
          => /\ ids_of(obs'.ret) \cap last_notification_ids = {}
             /\ obs'.fetched.list # <<>>
                   => ids_of(obs'.fetched.list) \subseteq last_notification_ids'

\* C30: each notification returned as new is handed to send_notification
\* exactly once: when every delivery attempt fails it is not offered again
\* on later polls while its id stays in the fetched page, and
\* notifications_sent is still increased for it
C30_HandedToSendExactlyOnce ==
    [][HandedOverOnce]_vars

\* B was new after the baseline [A], its delivery failed, it was counted in
\* notifications_sent, and the next poll fetched [A, B] and returned nothing
C30_Witness ==
    /\ Polled(obs)
    /\ hist.fetches = 3
    /\ hist.older = List(<<Notification("A")>>)
    /\ hist.prev = List(<<Notification("A"), Notification("B")>>)
    /\ hist.last = List(<<Notification("A"), Notification("B")>>)
    /\ obs.ret = <<>>
    /\ stats.errors = 1
    /\ stats.notifications_sent = 1
    /\ check_pc = "idle"

\* the outcome every failed authentication has for the caller of
\* login_and_get_token and for the operator
GenericFailure(o) ==
    /\ o.ret = None
    /\ o.shown = <<"Oshibka avtorizatsii">>

\* the answers of the token endpoint that carry no token and are not a 401
OtherFailures ==
    {a \in ApiAnswers : ~Truthy(a.access_token) /\ a.status # 401}

\* test_auth sent its login to the token endpoint, which answered with the
\* status
TestAuthAnswered(code) ==
    /\ obs.op = "test_auth"
    /\ "api_login" \in Range(obs.calls)
    /\ obs.api.kind = "response"
    /\ obs.api.status = code

\* C23: a 401 from the token endpoint reaches the caller of the
\* authentication as an outcome of its own, different from that of a 400, a
\* 5xx or a transport failure, and the reply to the operator differs
C23_UnauthorizedIsDistinct ==
    TestAuthAnswered(401)
        => /\ ~GenericFailure(obs)
           /\ \A a \in OtherFailures :
                  login_via_api(config, "", "", a).ret
                      # login_via_api(config, "", "", obs.api).ret

\* what does hold: whatever the token endpoint refused with, the caller gets
\* None and the operator the same reply
EveryRefusalLooksTheSame ==
    (/\ obs.op = "test_auth"
     /\ "api_login" \in Range(obs.calls)
     /\ ~Truthy(obs.api.access_token))
        => GenericFailure(obs)

\* a 400 has been answered with the generic failure
BadRequestIsGenericFailure ==
    TestAuthAnswered(400) /\ GenericFailure(obs)

\* the authentications that are not part of check_notifications
OutsideAuthentications == {"daily_auth", "test_auth", "select_campus"}

\* C24: between the start and the end of one check_notifications run no
\* daily_auth job and no chat-triggered authentication (test_auth,
\* select_campus) writes token or token_expiry
C24_NoAuthenticationDuringCheck ==
    [][(check_pc # "idle" /\ obs'.op \in OutsideAuthentications)
          => token' = token /\ token_expiry' = token_expiry]_vars

\* the daily_auth job has stored a token while check_notifications was
\* suspended in its sleep after an inline authentication that failed
AuthenticatedWhileCheckSleeps ==
    /\ check_pc = "sleeping"
    /\ obs.op = "daily_auth"
    /\ Truthy(token)

\* C25: an id that was in the seen-set, was absent from a later successful
\* non-empty fetch and is present in the fetch after that, is returned as new
\* again
C25_ReappearingIdIsNewAgain ==
    [][(/\ obs'.op = "get_new_notifications"
        /\ obs'.fetched.ok
        /\ hist.prev.ok /\ hist.prev.list # <<>>
        /\ hist.last.ok /\ hist.last.list # <<>>)
          => \A id \in ids_of(hist.prev.list) \ ids_of(hist.last.list) :
                 id \in ids_of(obs'.fetched.list)
                     => id \in ids_of(obs'.ret)]_vars

\* three fetches [A], [B], [A]: A is returned by the third
C25_Witness ==
    /\ obs.op = "get_new_notifications"
    /\ hist.fetches = 3
    /\ hist.older = List(<<Notification("A")>>)
    /\ hist.prev = List(<<Notification("B")>>)
    /\ hist.last = List(<<Notification("A")>>)
    /\ obs.ret = <<Notification("A")>>
    /\ last_notification_ids = {"A"}

====
